---- MODULE Spec2Model ----
(***************************************************************************)
(* The training bot. Its progress store (src/db.py): the users table,      *)
(* get_user_progress, migrate_user_data and update_user_progress, run by   *)
(* callers whose statements interleave at the database, and                *)
(* get_leaderboard. Its conversation (src/main.py): the handlers start,    *)
(* select_role_callback, handle_message and fallback of one learner's      *)
(* session, and calculate_score.                                           *)
(*                                                                         *)
(* Scores are NUMERIC(10, 2) values; the model counts them in hundredths,  *)
(* so a score is an integer and a sum of scores is exact.                  *)
(***************************************************************************)
EXTENDS Integers, Sequences, FiniteSets, TLC

\* ------------------------------------------------------------------ bounds

\* Scores passed to update_user_progress and held by the initial rows: 0..MaxScore.
MaxScore == 1

\* Length of completed_roles in the rows the migration specification starts from
\* (the rows that hold the whole retired roster are longer, and come on top).
MaxLen == 2

\* ------------------------------------------------------------- the rosters

ROLE_ORDER == <<"dmitry", "irina", "max", "oleg", "victoria">>

old_roles == <<"svetlana", "marina", "irina", "oleg", "victoria">>

old_to_new == [svetlana |-> "dmitry", marina |-> "irina"]

Range(s) == {s[i] : i \in DOMAIN s}

RoleKeys == Range(ROLE_ORDER)

AllKeys == Range(ROLE_ORDER) \cup Range(old_roles)

Scores == 0..MaxScore

\* The user_ids of the store, and those the callers of Spec pass.
AllUsers == {"u1", "u2"}

Users == {"u1"}

Procs == {"p1", "p2"}

\* ------------------------------------------------------------------- rows

EmptyMap == [k \in {} |-> 0]

\* sum(best_scores.values())
RECURSIVE SumValues(_)
SumValues(f) ==
    IF DOMAIN f = {} THEN 0
    ELSE LET k == CHOOSE x \in DOMAIN f : TRUE
         IN f[k] + SumValues([x \in DOMAIN f \ {k} |-> f[x]])

\* The row get_user_progress inserts for a user it does not know.
NewUserRow ==
    [completed_roles |-> <<>>, current_level_index |-> 0,
     total_score |-> 0, best_scores |-> EmptyMap]

RowKeys(row) == Range(row.completed_roles) \cup DOMAIN row.best_scores

OnlyCurrentKeys(row) == RowKeys(row) \subseteq RoleKeys

Min(a, b) == IF a < b THEN a ELSE b

Max(a, b) == IF a > b THEN a ELSE b

\* -------------------------------------------------------- migrate_user_data

\* all(role in completed_roles for role in old_roles)
had_all_old(completed_roles) ==
    \A i \in DOMAIN old_roles : old_roles[i] \in Range(completed_roles)

\* Mutant of append_if_absent: the membership test is left out.
append_always(new_completed, new_key) == Append(new_completed, new_key)

\* if new_key not in new_completed: new_completed.append(new_key)
append_if_absent(new_completed, new_key) ==
    IF new_key \notin Range(new_completed)
    THEN Append(new_completed, new_key)
    ELSE new_completed

\* The loop over completed_roles of the branch that migrates key by key.
RECURSIVE migrate_completed_loop(_, _)
migrate_completed_loop(completed_roles, new_completed) ==
    IF completed_roles = <<>> THEN new_completed
    ELSE LET role_key == Head(completed_roles)
             rest == Tail(completed_roles)
         IN IF role_key \in DOMAIN old_to_new
            THEN migrate_completed_loop(
                     rest, append_if_absent(new_completed, old_to_new[role_key]))
            ELSE IF role_key \in RoleKeys
            THEN migrate_completed_loop(rest, append_if_absent(new_completed, role_key))
            ELSE migrate_completed_loop(rest, new_completed)

\* Mutant of migrate_completed_roles: the branch for the whole retired roster
\* is left out, and every row is migrated key by key.
migrate_completed_keywise(completed_roles) ==
    IF completed_roles = <<>> THEN completed_roles
    ELSE migrate_completed_loop(completed_roles, <<>>)

\* completed_roles as migrate_user_data leaves it.
migrate_completed_roles(completed_roles) ==
    IF completed_roles = <<>> THEN completed_roles
    ELSE IF had_all_old(completed_roles) THEN ROLE_ORDER
    ELSE migrate_completed_loop(completed_roles, <<>>)

\* if key not in scores or score > scores[key]: scores[key] = score
fold_score(scores, key, score) ==
    IF key \notin DOMAIN scores \/ score > scores[key]
    THEN (key :> score) @@ scores
    ELSE scores

\* The loop over best_scores.items(); the fold keeps a maximum, so the order in
\* which the dictionary yields its items does not change what it builds.
RECURSIVE migrate_scores_loop(_, _, _)
migrate_scores_loop(best_scores, keys, new_best_scores) ==
    IF keys = {} THEN new_best_scores
    ELSE LET role_key == CHOOSE k \in keys : TRUE
             rest == keys \ {role_key}
         IN IF role_key \in DOMAIN old_to_new
            THEN migrate_scores_loop(best_scores, rest,
                     fold_score(new_best_scores, old_to_new[role_key], best_scores[role_key]))
            ELSE IF role_key \in RoleKeys
            THEN migrate_scores_loop(best_scores, rest,
                     fold_score(new_best_scores, role_key, best_scores[role_key]))
            ELSE migrate_scores_loop(best_scores, rest, new_best_scores)

\* best_scores as migrate_user_data leaves it.
migrate_best_scores(best_scores) ==
    IF DOMAIN best_scores = {} THEN best_scores
    ELSE migrate_scores_loop(best_scores, DOMAIN best_scores, EmptyMap)

\* Mutant of migrated_flag: the flag is also set for a key that is kept.
migrated_flag_any(user_data) ==
    user_data.completed_roles # <<>> \/ DOMAIN user_data.best_scores # {}

\* The flag migrate_user_data returns, and on which it writes.
migrated_flag(user_data) ==
    \/ /\ user_data.completed_roles # <<>>
       /\ \/ had_all_old(user_data.completed_roles)
          \/ \E i \in DOMAIN user_data.completed_roles :
                user_data.completed_roles[i] \in DOMAIN old_to_new
    \/ \E k \in DOMAIN user_data.best_scores : k \in DOMAIN old_to_new

\* completed_count >= len(ROLE_ORDER) ? len(ROLE_ORDER) : completed_count
migrate_level_index(completed_roles) ==
    IF Len(completed_roles) >= Len(ROLE_ORDER)
    THEN Len(ROLE_ORDER)
    ELSE Len(completed_roles)

\* The row migrate_user_data computes from the row it is given.
migrate_row(user_data) ==
    LET completed_roles == migrate_completed_roles(user_data.completed_roles)
        best_scores == migrate_best_scores(user_data.best_scores)
    IN [completed_roles |-> completed_roles,
        current_level_index |-> migrate_level_index(completed_roles),
        total_score |-> IF DOMAIN best_scores # {} THEN SumValues(best_scores) ELSE 0,
        best_scores |-> best_scores]

\* ----------------------------------------------------- update_user_progress

update_completed_roles(user_data, role_key) ==
    IF role_key \notin Range(user_data.completed_roles)
    THEN Append(user_data.completed_roles, role_key)
    ELSE user_data.completed_roles

\* Mutant of update_level_index: the index advances for a completed persona too.
update_level_index_replay(user_data, role_key) ==
    IF user_data.current_level_index < Len(ROLE_ORDER) - 1
    THEN user_data.current_level_index + 1
    ELSE user_data.current_level_index

update_level_index(user_data, role_key) ==
    IF /\ role_key \notin Range(user_data.completed_roles)
       /\ user_data.current_level_index < Len(ROLE_ORDER) - 1
    THEN user_data.current_level_index + 1
    ELSE user_data.current_level_index

\* Mutant of update_best_scores: the new score overwrites the best one.
update_best_scores_overwrite(user_data, role_key, score) ==
    (role_key :> score) @@ user_data.best_scores

\* Mutant of update_best_scores: a persona with no best score gets none.
update_best_scores_known(user_data, role_key, score) ==
    IF role_key \in DOMAIN user_data.best_scores
    THEN fold_score(user_data.best_scores, role_key, score)
    ELSE user_data.best_scores

update_best_scores(user_data, role_key, score) ==
    fold_score(user_data.best_scores, role_key, score)

\* Mutant of update_total_score: the sum is taken before the new score is folded in.
update_total_score_stale(user_data, best_scores) == SumValues(user_data.best_scores)

update_total_score(user_data, best_scores) == SumValues(best_scores)

\* The row update_user_progress writes, and returns, from the row it has read.
update_row(user_data, role_key, score) ==
    LET best_scores == update_best_scores(user_data, role_key, score)
    IN [completed_roles |-> update_completed_roles(user_data, role_key),
        current_level_index |-> update_level_index(user_data, role_key),
        total_score |-> update_total_score(user_data, best_scores),
        best_scores |-> best_scores]

\* --------------------------------------------------------------- the state

VARIABLES
    db,         \* the users table: a function from the user_ids that have a row
    pc,         \* where each caller stands in its call
    call,       \* the call each caller is making
    user_data,  \* the row each caller has read (result / user_data in the code)
    inserted,   \* whether the caller's transaction holds an uncommitted INSERT
    ret,        \* the value returned to each caller
    before,     \* history: the user's row when the caller's call began
    foreign,    \* history: another caller changed the user's row during the call
    quiet,      \* history: the user's row when no call on it was in flight
    wave,       \* history: calls begun on the user since then
    mig,        \* history: the last rewrite of the user's row by migration
    state,      \* the state the ConversationHandler keeps for the learner
    context_user_data,  \* context.user_data: the learner's session
    handled,    \* history: the handler that ran last, and what it did
    score_args, \* the arguments of a call of calculate_score
    score_data, \* what that call returned
    leaderboard,        \* a call of get_leaderboard: its limit and what it returned
    victory_check,      \* a reply, and is_victory of handle_message for it
    victory_score_data, \* score_data of handle_message for the arguments of score_args
    typing      \* a call of get_llm_response_async, and its typing_task

\* The variables of main.py, which the calls of db.py leave alone.
main_vars == <<state, context_user_data, handled, score_args, score_data,
               leaderboard, victory_check, victory_score_data, typing>>

\* The variables of the calls that are specified on their own.
call_vars == <<victory_check, victory_score_data, typing>>

\* The variables of the callers of db.py.
db_locals == <<pc, call, user_data, inserted, ret, before, foreign, quiet,
               wave, mig>>

vars == <<db, db_locals, main_vars>>

NoCall == [op |-> "none", user_id |-> "u1", role_key |-> "dmitry", score |-> 0]

CallsFor(users) ==
    {[op |-> "get", user_id |-> u, role_key |-> "dmitry", score |-> 0] : u \in users}
    \cup
    {[op |-> "update", user_id |-> u, role_key |-> r, score |-> s] :
        u \in users, r \in RoleKeys, s \in Scores}

\* The row of user u in store, as a function on {u}, or on {} when there is none.
Snap(store, u) == [x \in DOMAIN store \cap {u} |-> store[x]]

\* The row a snapshot holds; the inserted row when it holds none.
RowOr(snap, u) == IF u \in DOMAIN snap THEN snap[u] ELSE NewUserRow

InFlight(p, u) == pc[p] # "idle" /\ call[p].user_id = u

\* foreign, after caller p has changed the row of u.
MarkForeign(p, u) ==
    [q \in Procs |-> IF q # p /\ InFlight(q, u) THEN TRUE ELSE foreign[q]]

\* A row written under the roster given, by the update rule: the first n
\* personas of the roster completed in order, each with best score s.
PrefixRow(roster, n, s) ==
    [completed_roles |-> SubSeq(roster, 1, n),
     current_level_index |-> Min(n, Len(roster) - 1),
     total_score |-> n * s,
     best_scores |-> [k \in {roster[i] : i \in 1..n} |-> s]]

InitRows ==
    {PrefixRow(roster, n, s) :
        roster \in {ROLE_ORDER, old_roles}, n \in 0..Len(ROLE_ORDER), s \in Scores}

\* The states of the ConversationHandler: SELECTING_ROLE and IN_DIALOG of
\* main.py, and ConversationHandler.END, which ends the conversation.
SELECTING_ROLE == "SELECTING_ROLE"

IN_DIALOG == "IN_DIALOG"

END == "END"

NoHandler ==
    [handler |-> "none", outcome |-> "returned", input |-> <<>>,
     generation |-> "none", analysis |-> "none", victory |-> FALSE,
     updates |-> <<>>]

\* The history of a handler run: how it ended ("returned" or "raised"), the
\* update it handled, how the generation and evaluation calls went, whether
\* the reply was a victory, and the calls of update_user_progress it made.
Handled(handler, outcome, input, generation, analysis, victory, updates) ==
    [handler |-> handler, outcome |-> outcome, input |-> input,
     generation |-> generation, analysis |-> analysis, victory |-> victory,
     updates |-> updates]

\* main.py before any update has arrived.
InitMain ==
    /\ state = END
    /\ context_user_data = EmptyMap
    /\ handled = NoHandler
    /\ score_args = <<>>
    /\ score_data = <<>>
    /\ leaderboard = <<>>
    /\ victory_check = <<>>
    /\ victory_score_data = <<>>
    /\ typing = <<>>

InitLocals ==
    /\ pc = [p \in Procs |-> "idle"]
    /\ call = [p \in Procs |-> NoCall]
    /\ user_data = [p \in Procs |-> NewUserRow]
    /\ inserted = [p \in Procs |-> FALSE]
    /\ ret = [p \in Procs |-> NewUserRow]
    /\ before = [p \in Procs |-> EmptyMap]
    /\ foreign = [p \in Procs |-> FALSE]
    /\ quiet = [u \in AllUsers |-> EmptyMap]
    /\ wave = [u \in AllUsers |-> 0]
    /\ mig = [u \in AllUsers |-> <<>>]

Init ==
    /\ \E present \in SUBSET Users : db \in [present -> InitRows]
    /\ InitLocals
    /\ InitMain

\* ------------------------------------------------------------- the actions

\* Mutant of update_users: the UPDATE has no WHERE clause.
update_users_everywhere(store, user_id, row) == [u \in DOMAIN store |-> row]

\* UPDATE users SET ... WHERE user_id = %s, of update_user_progress and of
\* migrate_user_data: the row of user_id becomes row, when there is one.
update_users(store, user_id, row) == [store EXCEPT ![user_id] = row]

\* The callers are alike, so the first call is given to p1: p2 calls once p1 has.
MayCall(p) == p = "p1" \/ pc["p1"] # "idle"

\* A caller enters get_user_progress(user_id) or update_user_progress(user_id,
\* role_key, score). Each caller makes one call.
CallIn(p, users) ==
    /\ pc[p] = "idle"
    /\ MayCall(p)
    /\ \E c \in CallsFor(users) :
        /\ call' = [call EXCEPT ![p] = c]
        /\ before' = [before EXCEPT ![p] = Snap(db, c.user_id)]
        /\ IF \E q \in Procs : InFlight(q, c.user_id)
           THEN /\ wave' = [wave EXCEPT ![c.user_id] = @ + 1]
                /\ UNCHANGED quiet
           ELSE /\ wave' = [wave EXCEPT ![c.user_id] = 1]
                /\ quiet' = [quiet EXCEPT ![c.user_id] = Snap(db, c.user_id)]
    /\ pc' = [pc EXCEPT ![p] = "select"]
    /\ foreign' = [foreign EXCEPT ![p] = FALSE]
    /\ UNCHANGED <<db, user_data, inserted, ret, mig>>
    /\ UNCHANGED main_vars

\* get_user_progress: the SELECT, the INSERT when there is no row (not committed
\* yet), and the conversion of the row into result.
Select(p) ==
    /\ pc[p] = "select"
    /\ LET u == call[p].user_id
       IN IF u \in DOMAIN db
          THEN /\ user_data' = [user_data EXCEPT ![p] = db[u]]
               /\ inserted' = [inserted EXCEPT ![p] = FALSE]
          ELSE /\ user_data' = [user_data EXCEPT ![p] = NewUserRow]
               /\ inserted' = [inserted EXCEPT ![p] = TRUE]
    /\ pc' = [pc EXCEPT ![p] = "migrate"]
    /\ UNCHANGED <<db, call, ret, before, foreign, quiet, wave, mig>>
    /\ UNCHANGED main_vars

\* What the caller goes on to when get_user_progress has returned result.
AfterGet(p) == IF call[p].op = "get" THEN "done" ELSE "update"

\* What get_user_progress returns: result, as it was built from the SELECT.
get_result(p) == IF call[p].op = "get" THEN user_data[p] ELSE ret[p]

\* migrate_user_data(result) finds a retired key: it writes the migrated row on
\* a connection of its own and commits; get_user_progress then returns result.
MigrateWrite(p) ==
    /\ pc[p] = "migrate"
    /\ ~inserted[p]
    /\ migrated_flag(user_data[p])
    /\ LET u == call[p].user_id
       IN /\ db' = update_users(db, u, migrate_row(user_data[p]))
          /\ mig' = [mig EXCEPT ![u] = <<user_data[p], migrate_row(user_data[p])>>]
          /\ foreign' = MarkForeign(p, u)
    /\ pc' = [pc EXCEPT ![p] = AfterGet(p)]
    /\ ret' = [ret EXCEPT ![p] = get_result(p)]
    /\ UNCHANGED <<call, user_data, inserted, before, quiet, wave>>
    /\ UNCHANGED main_vars

\* migrate_user_data(result) finds nothing to migrate and writes nothing.
MigrateSkip(p) ==
    /\ pc[p] = "migrate"
    /\ ~inserted[p]
    /\ ~migrated_flag(user_data[p])
    /\ pc' = [pc EXCEPT ![p] = AfterGet(p)]
    /\ ret' = [ret EXCEPT ![p] = get_result(p)]
    /\ UNCHANGED <<db, call, user_data, inserted, before, foreign, quiet,
                   wave, mig>>
    /\ UNCHANGED main_vars

\* The new row has nothing to migrate; the INSERT is committed when the with
\* block of get_user_progress ends.
CommitInsert(p) ==
    /\ pc[p] = "migrate"
    /\ inserted[p]
    /\ call[p].user_id \notin DOMAIN db
    /\ db' = (call[p].user_id :> user_data[p]) @@ db
    /\ foreign' = MarkForeign(p, call[p].user_id)
    /\ inserted' = [inserted EXCEPT ![p] = FALSE]
    /\ pc' = [pc EXCEPT ![p] = AfterGet(p)]
    /\ ret' = [ret EXCEPT ![p] = get_result(p)]
    /\ UNCHANGED <<call, user_data, before, quiet, wave, mig>>
    /\ UNCHANGED main_vars

\* Another caller has committed a row for the same user_id first: the INSERT
\* violates the primary key, the transaction is rolled back and the error raised.
InsertConflict(p) ==
    /\ pc[p] = "migrate"
    /\ inserted[p]
    /\ call[p].user_id \in DOMAIN db
    /\ inserted' = [inserted EXCEPT ![p] = FALSE]
    /\ pc' = [pc EXCEPT ![p] = "get_failed"]
    /\ UNCHANGED <<db, call, user_data, ret, before, foreign, quiet, wave,
                   mig>>
    /\ UNCHANGED main_vars

\* Mutant of get_db_connection_rollback: the failed write leaves one column behind.
rollback_leaves_scores(store, user_id, row) ==
    IF user_id \in DOMAIN store
    THEN [store EXCEPT ![user_id].best_scores = row.best_scores]
    ELSE store

\* except Exception: conn.rollback(); raise -- the store after a statement or
\* a commit that was to leave row for user_id has failed.
get_db_connection_rollback(store, user_id, row) == store

\* The database fails get_user_progress before anything is committed: at the
\* SELECT or INSERT, at the UPDATE of the migration, or at the commit.
GetFail(p) ==
    /\ pc[p] \in {"select", "migrate"}
    /\ db' = get_db_connection_rollback(db, call[p].user_id, user_data[p])
    /\ inserted' = [inserted EXCEPT ![p] = FALSE]
    /\ pc' = [pc EXCEPT ![p] = "get_failed"]
    /\ UNCHANGED <<call, user_data, ret, before, foreign, quiet, wave, mig>>
    /\ UNCHANGED main_vars

\* The migration has committed on its own connection, and the commit that ends
\* the with block of get_user_progress fails.
CommitFail(p) ==
    /\ pc[p] = "migrate"
    /\ ~inserted[p]
    /\ migrated_flag(user_data[p])
    /\ LET u == call[p].user_id
       IN /\ db' = update_users(db, u, migrate_row(user_data[p]))
          /\ mig' = [mig EXCEPT ![u] = <<user_data[p], migrate_row(user_data[p])>>]
          /\ foreign' = MarkForeign(p, u)
    /\ pc' = [pc EXCEPT ![p] = "get_failed"]
    /\ UNCHANGED <<call, user_data, inserted, ret, before, quiet, wave>>
    /\ UNCHANGED main_vars

\* update_user_progress: the row computed from user_data is written by one
\* UPDATE, committed, and returned.
Update(p) ==
    /\ pc[p] = "update"
    /\ LET u == call[p].user_id
           row == update_row(user_data[p], call[p].role_key, call[p].score)
       IN /\ db' = update_users(db, u, row)
          /\ ret' = [ret EXCEPT ![p] = row]
          /\ mig' = [mig EXCEPT ![u] = <<>>]
          /\ foreign' = MarkForeign(p, u)
    /\ pc' = [pc EXCEPT ![p] = "done"]
    /\ UNCHANGED <<call, user_data, inserted, before, quiet, wave>>
    /\ UNCHANGED main_vars

\* The UPDATE of update_user_progress, or its commit, fails.
UpdateFail(p) ==
    /\ pc[p] = "update"
    /\ db' = get_db_connection_rollback(db, call[p].user_id,
                 update_row(user_data[p], call[p].role_key, call[p].score))
    /\ pc' = [pc EXCEPT ![p] = "update_failed"]
    /\ UNCHANGED <<call, user_data, inserted, ret, before, foreign, quiet,
                   wave, mig>>
    /\ UNCHANGED main_vars

Call(p) == CallIn(p, Users)

\* A caller enters get_user_progress(user_id), as start() of main.py does.
CallGet(p) ==
    /\ CallIn(p, Users)
    /\ call'[p].op = "get"

Next ==
    \E p \in Procs :
        \/ Call(p)
        \/ Select(p)
        \/ MigrateWrite(p)
        \/ MigrateSkip(p)
        \/ CommitInsert(p)
        \/ InsertConflict(p)
        \/ GetFail(p)
        \/ CommitFail(p)
        \/ Update(p)
        \/ UpdateFail(p)

Spec == Init /\ [][Next]_vars

\* ------------------------------------------- the migration on stored rows

\* The sequences over keys that hold no key twice, of length n.
SeqsNoDup(keys, n) ==
    {q \in [1..n -> keys] : \A i, j \in 1..n : i # j => q[i] # q[j]}

\* A row that holds the personas of completed, each with a best score.
RowOf(completed, best) ==
    [completed_roles |-> completed,
     current_level_index |-> Min(Len(completed), Len(ROLE_ORDER) - 1),
     total_score |-> SumValues(best),
     best_scores |-> best]

\* Rows of retired and current keys in any order, with any best scores.
MixedRows ==
    UNION {{RowOf(q, best) : best \in [Range(q) -> Scores]} :
             q \in UNION {SeqsNoDup(AllKeys, n) : n \in 0..MaxLen}}

\* Rows that hold the whole retired roster: in any order, and perhaps with a
\* current persona completed after it; or in roster order with any best scores.
FullLegacyRows ==
    {RowOf(q \o extra, [k \in Range(q \o extra) |-> s]) :
        q \in SeqsNoDup(Range(old_roles), Len(old_roles)),
        extra \in {<<>>, <<"dmitry">>, <<"max">>},
        s \in 1..MaxScore}
    \cup {RowOf(old_roles, best) : best \in [Range(old_roles) -> Scores]}

InitMig ==
    /\ \E present \in SUBSET Users : db \in [present -> MixedRows \cup FullLegacyRows]
    /\ InitLocals
    /\ InitMain

NextMig ==
    \E p \in Procs :
        \/ CallGet(p)
        \/ Select(p)
        \/ MigrateWrite(p)
        \/ MigrateSkip(p)
        \/ CommitInsert(p)
        \/ InsertConflict(p)
        \/ GetFail(p)
        \/ CommitFail(p)

\* Two callers read the progress of a user whose row is any of the rows above.
SpecMig == InitMig /\ [][NextMig]_vars

\* -------------------------------------------------------------- the claims

UserOf(p) == call[p].user_id

\* The row the user of caller p had when the call of p began.
BeforeRow(p) == RowOr(before[p], UserOf(p))

\* Caller p has returned from update_user_progress, and no other caller changed
\* the row of its user while the call ran.
UpdateDoneAlone(p) == pc[p] = "done" /\ call[p].op = "update" /\ ~foreign[p]

\* C1: every stored row has total_score equal to the sum of its best_scores,
\* after every write of update_user_progress and of migrate_user_data, also
\* when the calls for one user interleave.
TotalIsSumOfBest ==
    \A u \in DOMAIN db : db[u].total_score = SumValues(db[u].best_scores)

\* C1 is reached: two updates of one user have interleaved, each has written,
\* and the row holds a positive total.
TotalIsSumOfBest_Witness ==
    /\ \A p \in Procs : pc[p] = "done" /\ call[p].op = "update" /\ foreign[p]
    /\ \E u \in DOMAIN db : db[u].total_score > 0 /\ Len(db[u].completed_roles) > 1

\* C2: the record get_user_progress returns has only keys of ROLE_ORDER in
\* completed_roles and in best_scores.
GetReturnsCurrentKeys ==
    \A p \in Procs :
        (pc[p] = "done" /\ call[p].op = "get") => OnlyCurrentKeys(ret[p])

\* C3: update_user_progress for a persona that is not in completed_roles
\* appends it and raises current_level_index by exactly one, whatever the
\* index was (stated for the rows that hold current keys only).
NewPersonaAdvancesIndex ==
    \A p \in Procs :
        (/\ UpdateDoneAlone(p)
         /\ OnlyCurrentKeys(BeforeRow(p))
         /\ call[p].role_key \notin Range(BeforeRow(p).completed_roles))
        => /\ db[UserOf(p)].completed_roles =
                Append(BeforeRow(p).completed_roles, call[p].role_key)
           /\ db[UserOf(p)].current_level_index = BeforeRow(p).current_level_index + 1

\* The row a call of update_user_progress that runs alone leaves stored.
SerialUpdate(row, c) == update_row(row, c.role_key, c.score)

\* C4: two update_user_progress calls for one user that run concurrently lose
\* no update: the row stored at the end is the one some serial order of the
\* two calls stores.
NoLostUpdate ==
    \A u \in Users :
        (/\ wave[u] = 2
         /\ \A p \in Procs : pc[p] = "done" /\ call[p].op = "update" /\ UserOf(p) = u)
        => \E p, q \in Procs :
              /\ p # q
              /\ db[u] = SerialUpdate(SerialUpdate(RowOr(quiet[u], u), call[p]), call[q])

\* Caller p has had the exception of a database failure out of
\* update_user_progress, and no other caller changed the row meanwhile.
UpdateFailedAlone(p) ==
    /\ pc[p] \in {"get_failed", "update_failed"}
    /\ call[p].op = "update"
    /\ ~foreign[p]

BestScoreIsMax ==
    \A p \in Procs :
        UpdateDoneAlone(p) =>
            LET old == BeforeRow(p).best_scores
                new == db[UserOf(p)].best_scores
                r == call[p].role_key
            IN /\ DOMAIN new = DOMAIN old \cup {r}
               /\ new[r] = IF r \in DOMAIN old THEN Max(old[r], call[p].score)
                           ELSE call[p].score
               /\ \A k \in DOMAIN old \ {r} : new[k] = old[k]

\* C6 is reached: an update with a lower score than the stored best one.
BestScoreIsMax_Witness ==
    \E p \in Procs :
        /\ UpdateDoneAlone(p)
        /\ call[p].role_key \in DOMAIN BeforeRow(p).best_scores
        /\ call[p].score < BeforeRow(p).best_scores[call[p].role_key]
        /\ db[UserOf(p)].best_scores[call[p].role_key] > call[p].score

\* C7: update_user_progress for a persona that is in completed_roles leaves
\* current_level_index and completed_roles as they were.
ReplayKeepsIndex ==
    \A p \in Procs :
        (UpdateDoneAlone(p) /\ call[p].role_key \in Range(BeforeRow(p).completed_roles))
        => /\ db[UserOf(p)].completed_roles = BeforeRow(p).completed_roles
           /\ db[UserOf(p)].current_level_index = BeforeRow(p).current_level_index

\* C7 is reached: both callers have replayed a completed persona, one after
\* the other, the second with a score that raised the best score and the total.
ReplayKeepsIndex_Witness ==
    \E p, q \in Procs :
        /\ p # q
        /\ UpdateDoneAlone(p)
        /\ pc[q] = "done" /\ call[q].op = "update" /\ call[q].role_key = call[p].role_key
        /\ call[p].role_key \in Range(BeforeRow(q).completed_roles)
        /\ BeforeRow(p).current_level_index < Len(ROLE_ORDER) - 1
        /\ db[UserOf(p)].total_score > BeforeRow(p).total_score

\* Caller p leaves migrate_user_data in this step.
MigrationRuns(p) == pc[p] = "migrate" /\ pc'[p] # "migrate" /\ ~inserted[p]

\* The row caller p has read is the row the last migration stored.
ReadsMigratedRow(p) ==
    mig[UserOf(p)] # <<>> /\ user_data[p] = mig[UserOf(p)][2]

\* C8: migration is idempotent: run on the row a migration has stored, or on
\* a row that has only current keys, migrate_user_data writes nothing.
MigrationIdempotent ==
    [][\A p \in Procs :
          (MigrationRuns(p) /\ (ReadsMigratedRow(p) \/ OnlyCurrentKeys(user_data[p])))
          => (db' = db /\ mig' = mig)]_vars

\* C8 is reached: a call that began on the row a migration had stored has gone
\* through its own migration step and returned.
MigrationIdempotent_Witness ==
    \E p \in Procs :
        /\ pc[p] = "done"
        /\ UserOf(p) \in DOMAIN before[p]
        /\ mig[UserOf(p)] # <<>>
        /\ before[p][UserOf(p)] = mig[UserOf(p)][2]
        /\ user_data[p] = mig[UserOf(p)][2]

\* C9: a row whose completed_roles holds all five retired keys is stored by
\* the migration with completed_roles = ROLE_ORDER and current_level_index =
\* len(ROLE_ORDER).
FullLegacyBecomesRoster ==
    \A u \in DOMAIN db :
        (mig[u] # <<>> /\ had_all_old(mig[u][1].completed_roles))
        => /\ db[u].completed_roles = ROLE_ORDER
           /\ db[u].current_level_index = Len(ROLE_ORDER)

\* C9 is reached: the migration has rewritten a row that held the five keys.
FullLegacyBecomesRoster_Witness ==
    \E u \in DOMAIN db :
        /\ mig[u] # <<>>
        /\ had_all_old(mig[u][1].completed_roles)
        /\ db[u] = mig[u][2]
        /\ mig[u][1].completed_roles # old_roles

\* The current key a key of a stored row stands for.
Remap(k) == IF k \in DOMAIN old_to_new THEN old_to_new[k] ELSE k

FirstIndex(q, x) == CHOOSE i \in DOMAIN q : q[i] = x /\ \A j \in 1..(i - 1) : q[j] # x

\* out is the list of the remapped keys of src, each once, in the order of
\* their first occurrence.
IsRemappedList(src, out) ==
    LET m == [i \in DOMAIN src |-> Remap(src[i])]
    IN /\ Range(out) = Range(m)
       /\ \A i, j \in DOMAIN out : i # j => out[i] # out[j]
       /\ \A i, j \in DOMAIN out : i < j => FirstIndex(m, out[i]) < FirstIndex(m, out[j])

\* out gives each current key the largest score of the keys remapped to it.
IsFoldedScores(src, out) ==
    /\ DOMAIN out = {Remap(k) : k \in DOMAIN src}
    /\ \A c \in DOMAIN out :
          /\ \E k \in DOMAIN src : Remap(k) = c /\ src[k] = out[c]
          /\ \A k \in DOMAIN src : Remap(k) = c => src[k] <= out[c]

\* C10: for a row with a retired key but not the whole retired roster, the
\* migration stores completed_roles as the duplicate-free list of the remapped
\* keys in their order, best_scores with the maximum of the scores folded into
\* each current key, and current_level_index = min(len(completed_roles),
\* len(ROLE_ORDER)).
PartialLegacyIsRemapped ==
    \A u \in DOMAIN db :
        (mig[u] # <<>> /\ ~had_all_old(mig[u][1].completed_roles))
        => /\ IsRemappedList(mig[u][1].completed_roles, db[u].completed_roles)
           /\ IsFoldedScores(mig[u][1].best_scores, db[u].best_scores)
           /\ db[u].current_level_index =
                Min(Len(db[u].completed_roles), Len(ROLE_ORDER))

\* C10 is reached: the migration has merged two keys into one, out of roster
\* order, and kept the larger of their two scores.
PartialLegacyIsRemapped_Witness ==
    \E u \in DOMAIN db :
        /\ mig[u] # <<>>
        /\ db[u] = mig[u][2]
        /\ mig[u][1].completed_roles = <<"irina", "marina">>
        /\ mig[u][1].best_scores["irina"] < mig[u][1].best_scores["marina"]
        /\ db[u].best_scores["irina"] = mig[u][1].best_scores["marina"]

\* ------------------------------------------------------------------ texts

\* A text (a Python str) is the sequence of its characters, one string for
\* each character. The strings of main.py are Russian: a Cyrillic letter is
\* written by its Latin transliteration, a capital letter by the capitalised
\* one ("d" and "D", "zh" and "Zh", "q" for the soft sign), a Latin letter x
\* as "lat-x", the line feed as "NL"; every other character stands for itself.
\* Two characters are equal exactly when their strings are.

\* Mutant of Contains: the phrase is looked for at the start of the text only.
starts_with(text, phrase) ==
    Len(phrase) <= Len(text) /\ SubSeq(text, 1, Len(phrase)) = phrase

\* phrase in text
Contains(text, phrase) ==
    \E i \in 0..(Len(text) - Len(phrase)) :
        SubSeq(text, i + 1, i + Len(phrase)) = phrase

\* victory_phrases of handle_message:
\*   "Okej, dogovorilisq"
\*   "okej, dogovorilisq"
\*   "Horosho, dogovorilisq"
\*   "horosho, dogovorilisq"
\*   "Dogovorilisq"
\*   "dogovorilisq"
\*   "Soglasen"
\*   "soglasen"
\*   "Soglasna"
\*   "soglasna"
victory_phrases ==
    <<
      <<"O", "k", "e", "j", ",", " ", "d", "o", "g", "o", "v", "o", "r",
        "i", "l", "i", "s", "q">>,
      <<"o", "k", "e", "j", ",", " ", "d", "o", "g", "o", "v", "o", "r",
        "i", "l", "i", "s", "q">>,
      <<"H", "o", "r", "o", "sh", "o", ",", " ", "d", "o", "g", "o", "v",
        "o", "r", "i", "l", "i", "s", "q">>,
      <<"h", "o", "r", "o", "sh", "o", ",", " ", "d", "o", "g", "o", "v",
        "o", "r", "i", "l", "i", "s", "q">>,
      <<"D", "o", "g", "o", "v", "o", "r", "i", "l", "i", "s", "q">>,
      <<"d", "o", "g", "o", "v", "o", "r", "i", "l", "i", "s", "q">>,
      <<"S", "o", "g", "l", "a", "s", "e", "n">>,
      <<"s", "o", "g", "l", "a", "s", "e", "n">>,
      <<"S", "o", "g", "l", "a", "s", "n", "a">>,
      <<"s", "o", "g", "l", "a", "s", "n", "a">>
    >>

\* Mutant of is_victory: every reply closes the deal.
is_victory_of_any(llm_response) == llm_response = llm_response

\* is_victory = any(phrase in llm_response for phrase in victory_phrases)
is_victory(llm_response) ==
    \E k \in DOMAIN victory_phrases : Contains(llm_response, victory_phrases[k])

\* What get_llm_response returns when the API call raises:
\*   "Izvinite, sejchas ya nemnogo zanyat... Kazhetsya, u menya problemy s pamyatqyu. Poprobujte eshhe raz."
llm_failure_text ==
    <<"I", "z", "v", "i", "n", "i", "t", "e", ",", " ", "s", "e", "j",
      "ch", "a", "s", " ", "ya", " ", "n", "e", "m", "n", "o", "g", "o",
      " ", "z", "a", "n", "ya", "t", ".", ".", ".", " ", "K", "a", "zh",
      "e", "t", "s", "ya", ",", " ", "u", " ", "m", "e", "n", "ya", " ",
      "p", "r", "o", "b", "l", "e", "m", "y", " ", "s", " ", "p", "a", "m",
      "ya", "t", "q", "yu", ".", " ", "P", "o", "p", "r", "o", "b", "u",
      "j", "t", "e", " ", "e", "shh", "e", " ", "r", "a", "z", ".">>

\* What get_analysis returns when the API call raises:
\*   "Ne udalosq sgenerirovatq podrobnyj analiz iz-za oshibki lat-Alat-Plat-I."
analysis_failure_text ==
    <<"N", "e", " ", "u", "d", "a", "l", "o", "s", "q", " ", "s", "g", "e",
      "n", "e", "r", "i", "r", "o", "v", "a", "t", "q", " ", "p", "o", "d",
      "r", "o", "b", "n", "y", "j", " ", "a", "n", "a", "l", "i", "z", " ",
      "i", "z", "-", "z", "a", " ", "o", "sh", "i", "b", "k", "i", " ",
      "lat-A", "lat-P", "lat-I", ".">>

\* 'Bazovaya ocenka:', the cue of the line handle_message reads the rating from.
score_line_cue ==
    <<"B", "a", "z", "o", "v", "a", "ya", " ", "o", "c", "e", "n", "k",
      "a", ":">>

\* ------------------------------------------------- the persona catalogue

\* ROLES of roles_data.py, which main.py imports: one persona for each key of
\* ROLE_ORDER, with a positive multiplier. The model counts the multiplier in
\* tenths (10 is 1.0).
ROLES ==
    [dmitry   |-> [multiplier |-> 10],
     irina    |-> [multiplier |-> 12],
     max      |-> [multiplier |-> 15],
     oleg     |-> [multiplier |-> 18],
     victoria |-> [multiplier |-> 20]]

\* ------------------------------------------------------ reading a rating

\* The characters str.strip() takes off, of those the model's texts hold.
Whitespace == {" ", "NL"}

Digits == <<"0", "1", "2", "3", "4", "5", "6", "7", "8", "9">>

IsDigit(c) == c \in Range(Digits)

DigitValue(c) == (CHOOSE i \in DOMAIN Digits : Digits[i] = c) - 1

\* The number a run of digits writes.
RECURSIVE int_of_digits(_)
int_of_digits(s) ==
    IF s = <<>> THEN 0
    ELSE 10 * int_of_digits(SubSeq(s, 1, Len(s) - 1)) + DigitValue(s[Len(s)])

\* text.split(sep), for a separator of one character.
RECURSIVE split(_, _)
split(text, sep) ==
    IF \E i \in DOMAIN text : text[i] = sep
    THEN LET i == CHOOSE k \in DOMAIN text :
                      text[k] = sep /\ \A j \in 1..(k - 1) : text[j] # sep
         IN <<SubSeq(text, 1, i - 1)>> \o split(SubSeq(text, i + 1, Len(text)), sep)
    ELSE <<text>>

\* text.strip()
RECURSIVE strip(_)
strip(text) ==
    IF text # <<>> /\ text[1] \in Whitespace
    THEN strip(Tail(text))
    ELSE IF text # <<>> /\ text[Len(text)] \in Whitespace
         THEN strip(SubSeq(text, 1, Len(text) - 1))
         ELSE text

\* int(s) returns for an optional sign and digits, and raises ValueError for
\* every other text of the model.
int_returns(s) ==
    LET digits == IF s # <<>> /\ s[1] \in {"+", "-"} THEN Tail(s) ELSE s
    IN digits # <<>> /\ \A i \in DOMAIN digits : IsDigit(digits[i])

int_of(s) ==
    IF s[1] = "-" THEN 0 - int_of_digits(Tail(s))
    ELSE IF s[1] = "+" THEN int_of_digits(Tail(s))
    ELSE int_of_digits(s)

\* Mutant of parse_base_score: a write-up without a rating counts as a zero.
parse_base_score_or_zero(analysis_text) ==
    LET lines == split(analysis_text, "NL")
        hits == {i \in DOMAIN lines : Contains(lines[i], score_line_cue)}
    IN IF hits = {}
       THEN 0
       ELSE LET score_line == lines[CHOOSE i \in hits : \A j \in hits : i <= j]
                parts == split(score_line, ":")
                base_score_str == strip(split(parts[Len(parts)], "/")[1])
            IN IF int_returns(base_score_str)
               THEN int_of(base_score_str)
               ELSE 0

\* handle_message, step 2: base_score = 10, and base_score is read from the first line of the
\* write-up that holds the cue, between its last ':' and the '/' after it;
\* StopIteration (no such line) and ValueError (not a number) leave the default.
parse_base_score(analysis_text) ==
    LET lines == split(analysis_text, "NL")
        hits == {i \in DOMAIN lines : Contains(lines[i], score_line_cue)}
    IN IF hits = {}
       THEN 10
       ELSE LET score_line == lines[CHOOSE i \in hits : \A j \in hits : i <= j]
                parts == split(score_line, ":")
                base_score_str == strip(split(parts[Len(parts)], "/")[1])
            IN IF int_returns(base_score_str)
               THEN int_of(base_score_str)
               ELSE 10

\* if message_count == 0: message_count = 1
effective_message_count(message_count) ==
    IF message_count = 0 THEN 1 ELSE message_count

\* The integers nearest to num / den, for den > 0: both neighbours at a tie.
nearest(num, den) ==
    LET q == num \div den
        r == num % den
    IN IF 2 * r < den THEN {q}
       ELSE IF 2 * r > den THEN {q + 1}
       ELSE {q, q + 1}

\* Mutant of final_scores: the quotient is cut off, not rounded.
final_scores_truncated(multiplier, base_score, message_count) ==
    {(multiplier * base_score * 10) \div effective_message_count(message_count)}

\* round(multiplier * (base_score / message_count), 2), in hundredths. The
\* product is a float: it lies nearer to the exact quotient than to any other
\* hundredth or half of one, so round() gives the nearest hundredth; when the
\* exact quotient is halfway between two hundredths the float's last bit
\* decides, and the model allows both.
final_scores(multiplier, base_score, message_count) ==
    nearest(multiplier * base_score * 10, effective_message_count(message_count))

\* ------------------------------------------------------------ the session

\* Learner turns of one session: handle_message is taken up to this count.
MaxTurns == 2

\* The learner whose updates the session specification handles.
Learner == "u1"

\* "Dorogo": a reply that closes no deal.
reply_refusing ==
    <<"D", "o", "r", "o", "g", "o">>

\* "Horosho, dogovorilisq": a reply that closes the deal.
reply_agreeing ==
    <<"H", "o", "r", "o", "sh", "o", ",", " ", "d", "o", "g", "o", "v",
      "o", "r", "i", "l", "i", "s", "q">>

\* "Razbor.\nBazovaya ocenka: 15/20": a write-up that ends with its rating.
analysis_rated ==
    <<"R", "a", "z", "b", "o", "r", ".", "NL", "B", "a", "z", "o", "v",
      "a", "ya", " ", "o", "c", "e", "n", "k", "a", ":", " ", "1", "5",
      "/", "2", "0">>

\* "Zapishitesq": what the learner writes.
learner_text ==
    <<"Z", "a", "p", "i", "sh", "i", "t", "e", "s", "q">>

\* What the API call of get_llm_response may return when it does not raise.
Replies == {reply_refusing, reply_agreeing}

\* get_llm_response never raises: it returns the model's reply, or the text of
\* its except branch.
get_llm_response_results ==
    {[text |-> r, failed |-> FALSE] : r \in Replies}
    \cup {[text |-> llm_failure_text, failed |-> TRUE]}

\* get_analysis never raises either.
get_analysis_results ==
    {[text |-> analysis_rated, failed |-> FALSE],
     [text |-> analysis_failure_text, failed |-> TRUE]}

\* query.data of a pressed button, as query.data.split('_') cuts it. The
\* pattern of the CallbackQueryHandler lets pass "separator" and every data
\* that begins with "start_role_": the buttons of start(), buttons of a
\* keyboard sent under the old roster, and data with nothing after the prefix.
CallbackData ==
    {<<"separator">>}
    \cup {<<"start", "role", k>> : k \in {"dmitry", "max", "svetlana", ""}}

\* The rows the learner's progress starts from: none, or one of these.
SessionRows == {PrefixRow(ROLE_ORDER, 1, 0), PrefixRow(old_roles, 1, 0)}

\* get_user_progress(user_id), run with no other caller: the store it leaves.
get_user_progress_store(store, user_id) ==
    IF user_id \notin DOMAIN store
    THEN (user_id :> NewUserRow) @@ store
    ELSE IF migrated_flag(store[user_id])
         THEN [store EXCEPT ![user_id] = migrate_row(store[user_id])]
         ELSE store

\* update_user_progress(user_id, role_key, score), run with no other caller:
\* the row is computed from what get_user_progress returned, and written.
update_user_progress_store(store, user_id, role_key, score) ==
    [get_user_progress_store(store, user_id) EXCEPT
        ![user_id] = update_row(RowOr(store, user_id), role_key, score)]

\* The stores a call of db.py that raises may leave: nothing written, or the
\* INSERT or migration of its read committed before the failure.
StoresAfterFailure(store, user_id) ==
    {store, get_user_progress_store(store, user_id)}

GenerationOf(g) == IF g.failed THEN "failed" ELSE "returned"

InitSession ==
    /\ \E present \in SUBSET {Learner} : db \in [present -> SessionRows]
    /\ InitLocals
    /\ InitMain

\* /start: the entry point, taken in every state (allow_reentry). start() reads
\* the progress and shows the keyboard; whatever raises inside it is caught,
\* and the conversation ends.
start ==
    /\ \/ /\ db' = get_user_progress_store(db, Learner)
          /\ state' = SELECTING_ROLE
          /\ handled' = Handled("start", "returned", <<>>, "none", "none",
                                FALSE, <<>>)
       \/ /\ db' \in StoresAfterFailure(db, Learner)
          /\ state' = END
          /\ handled' = Handled("start", "caught", <<>>, "none", "none",
                                FALSE, <<>>)
    /\ UNCHANGED <<context_user_data, db_locals, score_args, score_data,
                   leaderboard, call_vars>>

\* Mutant of opening_dialog: the synthetic instruction is kept in the dialog.
opening_dialog_with_prompt(client_start_message) ==
    <<[role |-> "user", content |-> <<>>],
      [role |-> "client", content |-> client_start_message]>>

\* context.user_data['dialog'] = [] and, after the first call of the
\* generation, .append({"role": "client", "content": client_start_message}).
opening_dialog(client_start_message) ==
    <<[role |-> "client", content |-> client_start_message]>>

\* select_role_callback: a button pressed in SELECTING_ROLE.
select_role_callback(data) ==
    /\ state = SELECTING_ROLE
    /\ IF data = <<"separator">>
       THEN /\ handled' = Handled("select_role_callback", "returned", data,
                                  "none", "none", FALSE, <<>>)
            /\ UNCHANGED <<state, context_user_data>>
       ELSE LET role_key == data[3]
                session == [dialog |-> <<>>, role_key |-> role_key,
                            message_count |-> 0]
            IN IF role_key \notin DOMAIN ROLES
               THEN \* ROLES[role_key] raises KeyError: nothing is assigned,
                    \* and the ConversationHandler keeps its state.
                    /\ handled' = Handled("select_role_callback", "raised",
                                          data, "none", "none", FALSE, <<>>)
                    /\ UNCHANGED <<state, context_user_data>>
               ELSE \E g \in get_llm_response_results :
                    \/ \* answered, and the message edited
                       /\ context_user_data' =
                              [session EXCEPT !.dialog = opening_dialog(g.text)]
                       /\ state' = IN_DIALOG
                       /\ handled' = Handled("select_role_callback",
                              "returned", data, GenerationOf(g), "none",
                              FALSE, <<>>)
                    \/ \* send_action or edit_message_text raises
                       /\ context_user_data' = session
                       /\ state' = state
                       /\ handled' = Handled("select_role_callback", "raised",
                              data, "none", "none", FALSE, <<>>)
    /\ UNCHANGED <<db, db_locals, score_args, score_data, leaderboard,
                   call_vars>>

\* Mutant of count_message: the learner's message is not counted.
count_no_message(session) == session

\* context.user_data['message_count'] += 1
count_message(session) == [session EXCEPT !.message_count = @ + 1]

\* context.user_data['dialog'].append({"role": role, "content": content})
append_turn(session, role, content) ==
    [session EXCEPT !.dialog = Append(@, [role |-> role, content |-> content])]

\* Mutant of clear: the session is kept.
keep(session) == session

\* context.user_data.clear()
clear(session) == EmptyMap

\* handle_message: a text of the learner in IN_DIALOG.
handle_message(user_text) ==
    /\ state = IN_DIALOG
    /\ IF "role_key" \notin DOMAIN context_user_data
       THEN /\ state' = END
            /\ handled' = Handled("handle_message", "returned", user_text,
                                  "none", "none", FALSE, <<>>)
            /\ UNCHANGED <<db, context_user_data>>
       ELSE /\ context_user_data.message_count < MaxTurns
            /\ LET role_key == context_user_data.role_key
                   session == append_turn(count_message(context_user_data),
                                          "user", user_text)
               IN \/ \* chat.send_action raises
                     /\ context_user_data' = session
                     /\ handled' = Handled("handle_message", "raised",
                            user_text, "none", "none", FALSE, <<>>)
                     /\ UNCHANGED <<db, state>>
                  \/ \* get_llm_response_async raises: caught, IN_DIALOG
                     /\ context_user_data' = session
                     /\ state' = IN_DIALOG
                     /\ handled' = Handled("handle_message", "returned",
                            user_text, "raised", "none", FALSE, <<>>)
                     /\ UNCHANGED db
                  \/ \E g \in get_llm_response_results :
                     IF is_victory(g.text)
                     THEN \E a \in get_analysis_results :
                          \E final_score \in final_scores(
                                 ROLES[role_key].multiplier,
                                 parse_base_score(a.text),
                                 session.message_count) :
                          LET updates == <<[user_id |-> Learner,
                                            role_key |-> role_key,
                                            score |-> final_score]>>
                          IN \/ \* update_user_progress returns
                                /\ db' = update_user_progress_store(db,
                                       Learner, role_key, final_score)
                                /\ context_user_data' = clear(session)
                                /\ state' = END
                                /\ handled' = Handled("handle_message",
                                       "returned", user_text, GenerationOf(g),
                                       GenerationOf(a), TRUE, updates)
                             \/ \* update_user_progress raises
                                /\ db' \in StoresAfterFailure(db, Learner)
                                /\ context_user_data' = session
                                /\ state' = state
                                /\ handled' = Handled("handle_message",
                                       "raised", user_text, GenerationOf(g),
                                       GenerationOf(a), TRUE, updates)
                     ELSE \* the reply is sent, or the last reply_text raises
                          /\ context_user_data' =
                                 append_turn(session, "client", g.text)
                          /\ state' = IN_DIALOG
                          /\ \E outcome \in {"returned", "raised"} :
                                 handled' = Handled("handle_message", outcome,
                                     user_text, GenerationOf(g), "none",
                                     FALSE, <<>>)
                          /\ UNCHANGED db
    /\ UNCHANGED <<db_locals, score_args, score_data, leaderboard, call_vars>>

\* fallback: in SELECTING_ROLE every message but /start, in IN_DIALOG every
\* message that is neither a text nor /start. It answers and returns END; when
\* reply_text raises, the ConversationHandler keeps its state.
fallback ==
    /\ state \in {SELECTING_ROLE, IN_DIALOG}
    /\ \/ /\ state' = END
          /\ handled' = Handled("fallback", "returned", <<>>, "none", "none",
                                FALSE, <<>>)
       \/ /\ state' = state
          /\ handled' = Handled("fallback", "raised", <<>>, "none", "none",
                                FALSE, <<>>)
    /\ UNCHANGED <<db, context_user_data, db_locals, score_args, score_data,
                   leaderboard, call_vars>>

NextSession ==
    \/ start
    \/ \E data \in CallbackData : select_role_callback(data)
    \/ handle_message(learner_text)
    \/ fallback

\* One learner's updates, handled one at a time in their order of arrival.
SpecSession == InitSession /\ [][NextSession]_vars

\* ------------------------------------------------- claims about the session

\* The step is a run of the handler named.
Ran(handler) == handled'.handler = handler

\* A run of handle_message on a session, whose reply was a victory.
VictoryTurn == Ran("handle_message") /\ handled'.victory

\* The session with the learner's turn counted and appended, and nothing else.
WithLearnerTurn(session, user_text) ==
    [session EXCEPT !.message_count = @ + 1,
                    !.dialog = Append(@, [role |-> "user", content |-> user_text])]

\* The calls of update_user_progress a victory on the session may make.
VictoryUpdates(session) ==
    {<<[user_id |-> Learner, role_key |-> session.role_key, score |-> s]>> :
        s \in UNION {final_scores(ROLES[session.role_key].multiplier,
                                  parse_base_score(a.text),
                                  session.message_count + 1) :
                        a \in get_analysis_results}}

\* C11, as stated: a victory reply is not appended to the dialog, leads to
\* exactly one call update_user_progress(user, persona_key, final_score), and
\* ends with the session data discarded and the conversation ended; a reply
\* that is no victory leads to no call of update_user_progress.
VictoryEndsSession ==
    [][/\ VictoryTurn =>
            /\ handled'.updates \in VictoryUpdates(context_user_data)
            /\ context_user_data' = EmptyMap
            /\ state' = END
       /\ Ran("handle_message") /\ ~handled'.victory =>
            handled'.updates = <<>> /\ db' = db]_vars

\* C11, amended: a victory reply is not appended to the dialog and leads to
\* exactly one call update_user_progress(user, persona_key, final_score); when
\* the call returns, its row is stored, the session data is discarded and the
\* conversation ended; when it raises, the session data is kept with the
\* learner's turn counted and appended (and no reply), and the conversation
\* stays in IN_DIALOG. A reply that is no victory leads to no call.
VictoryScoredOnce ==
    [][/\ VictoryTurn =>
            /\ handled'.updates \in VictoryUpdates(context_user_data)
            /\ handled'.outcome = "returned" =>
                  /\ context_user_data' = EmptyMap
                  /\ state' = END
                  /\ db' = update_user_progress_store(db, Learner,
                               handled'.updates[1].role_key,
                               handled'.updates[1].score)
            /\ handled'.outcome = "raised" =>
                  /\ context_user_data' =
                         WithLearnerTurn(context_user_data, handled'.input)
                  /\ state' = IN_DIALOG
                  /\ db' \in StoresAfterFailure(db, Learner)
       /\ Ran("handle_message") /\ ~handled'.victory =>
            handled'.updates = <<>> /\ db' = db]_vars

\* A victory has been scored and stored, and the session ended.
VictoryScoredOnce_Witness ==
    /\ handled.handler = "handle_message"
    /\ handled.victory
    /\ handled.outcome = "returned"
    /\ Len(handled.updates) = 1
    /\ state = END
    /\ context_user_data = EmptyMap
    /\ Learner \in DOMAIN db
    /\ handled.updates[1].role_key \in DOMAIN db[Learner].best_scores

\* C12, as stated: when get_analysis fails after a victory reply, the session
\* stays in IN_DIALOG and the progress record is not changed.
AnalysisFailureKeepsSession ==
    [][Ran("handle_message") /\ handled'.analysis = "failed"
          /\ handled'.outcome = "returned" =>
            /\ state' = IN_DIALOG
            /\ context_user_data' # EmptyMap
            /\ db' = db]_vars

\* C12, amended: when get_analysis fails after a victory reply, its fixed
\* text is the write-up, no rating is read from it and base_score is 10: the
\* victory is scored with round(multiplier * 10 / message_count, 2) by one
\* call of update_user_progress and, when that call returns, stored, with the
\* session data discarded and the conversation ended.
AnalysisFailureScoresDefault ==
    [][Ran("handle_message") /\ handled'.analysis = "failed" =>
            /\ handled'.victory
            /\ Len(handled'.updates) = 1
            /\ handled'.updates[1].user_id = Learner
            /\ handled'.updates[1].role_key = context_user_data.role_key
            /\ handled'.updates[1].score \in
                   nearest(ROLES[context_user_data.role_key].multiplier * 100,
                           context_user_data.message_count + 1)
            /\ handled'.outcome = "returned" =>
                  /\ state' = END
                  /\ context_user_data' = EmptyMap
                  /\ db' = update_user_progress_store(db, Learner,
                               handled'.updates[1].role_key,
                               handled'.updates[1].score)]_vars

\* A victory whose evaluation failed has been stored with a positive score.
AnalysisFailureScoresDefault_Witness ==
    /\ handled.handler = "handle_message"
    /\ handled.analysis = "failed"
    /\ handled.outcome = "returned"
    /\ state = END
    /\ Learner \in DOMAIN db
    /\ db[Learner].total_score >= handled.updates[1].score
    /\ handled.updates[1].score > 0

\* C13: when the generation call fails during a learner turn in IN_DIALOG, the
\* turn is not classified as a victory, the conversation stays in IN_DIALOG,
\* and the progress record is not changed (update_user_progress is not called).
GenerationFailureStaysInDialog ==
    [][Ran("handle_message") /\ handled'.generation \in {"failed", "raised"} =>
            /\ ~handled'.victory
            /\ state = IN_DIALOG /\ state' = IN_DIALOG
            /\ handled'.updates = <<>>
            /\ db' = db]_vars

\* The generation has failed in a learner turn, and its fixed text is the
\* persona's turn of the dialog.
GenerationFailureStaysInDialog_Witness ==
    /\ handled.handler = "handle_message"
    /\ handled.generation = "failed"
    /\ state = IN_DIALOG
    /\ context_user_data.dialog[Len(context_user_data.dialog)] =
           [role |-> "client", content |-> llm_failure_text]

\* C14, as stated, for the fallback inputs of IN_DIALOG: the fallback ends the
\* conversation, discards the session data (role_key, dialog, message_count),
\* and neither scores nor changes the progress record.
FallbackDiscardsSession ==
    [][Ran("fallback") /\ handled'.outcome = "returned" /\ state = IN_DIALOG =>
            /\ state' = END
            /\ context_user_data' = EmptyMap
            /\ handled'.updates = <<>>
            /\ db' = db]_vars

\* C15, as stated: a selection whose key names no persona of ROLES ends the
\* conversation and does not change the progress record.
UnknownPersonaEndsConversation ==
    [][/\ Ran("select_role_callback")
       /\ handled'.input # <<"separator">>
       /\ handled'.input[3] \notin DOMAIN ROLES
       => state' = END /\ db' = db]_vars

\* C16: when a selection ends in IN_DIALOG, role_key is the persona chosen,
\* message_count is 0, and the dialog is one turn: the persona's, holding the
\* reply of the generation call; the synthetic instruction is not in it.
SelectionOpensDialog ==
    [][Ran("select_role_callback") /\ state' = IN_DIALOG =>
            /\ handled'.input[3] \in DOMAIN ROLES
            /\ context_user_data'.role_key = handled'.input[3]
            /\ context_user_data'.message_count = 0
            /\ Len(context_user_data'.dialog) = 1
            /\ context_user_data'.dialog[1].role = "client"
            /\ context_user_data'.dialog[1].content \in
                   {g.text : g \in get_llm_response_results}]_vars

\* The selection of max has opened a dialog with the generated reply.
SelectionOpensDialog_Witness ==
    /\ handled.handler = "select_role_callback"
    /\ state = IN_DIALOG
    /\ context_user_data.role_key = "max"
    /\ context_user_data.dialog = opening_dialog(reply_refusing)

\* The learner turns of a dialog.
LearnerTurns(dialog) == Cardinality({i \in DOMAIN dialog : dialog[i].role = "user"})

\* C17: message_count is the number of learner turns of dialog in every state
\* of a session; a learner turn in IN_DIALOG adds one to message_count and one
\* learner turn to dialog, and a reply that is no victory is appended as one
\* persona turn, the conversation staying in IN_DIALOG.
MessageCountCountsLearnerTurns ==
    [][/\ "role_key" \in DOMAIN context_user_data' =>
            context_user_data'.message_count =
                LearnerTurns(context_user_data'.dialog)
       /\ Ran("handle_message") /\ context_user_data' # EmptyMap =>
            LET counted == WithLearnerTurn(context_user_data, handled'.input)
            IN IF handled'.generation \in {"returned", "failed"}
                  /\ ~handled'.victory
               THEN /\ state' = IN_DIALOG
                    /\ Len(context_user_data'.dialog) = Len(counted.dialog) + 1
                    /\ context_user_data' =
                           [counted EXCEPT !.dialog = Append(@,
                               context_user_data'.dialog[Len(counted.dialog) + 1])]
                    /\ context_user_data'.dialog[Len(counted.dialog) + 1].role
                           = "client"
               ELSE context_user_data' = counted]_vars

\* The second learner turn of a session has been answered.
MessageCountCountsLearnerTurns_Witness ==
    /\ handled.handler = "handle_message"
    /\ handled.generation = "returned"
    /\ state = IN_DIALOG
    /\ context_user_data.message_count = 2
    /\ Len(context_user_data.dialog) = 5

\* --------------------------------------------------------- the leaderboard

\* The limits get_leaderboard is called with: 0..MaxLimit.
MaxLimit == 2

\* The users of the store the leaderboard is read from.
BoardUsers == {"u1", "u2", "u3"}

\* Their rows: the inserted row, or one persona completed with a score that
\* is below zero, zero, or above.
BoardRows ==
    {NewUserRow} \cup {PrefixRow(ROLE_ORDER, 1, s) : s \in (0 - 1)..(MaxScore + 1)}

\* Mutant of where_total_score: WHERE total_score >= 0.
where_total_score_not_negative(row) == row.total_score >= 0

\* WHERE total_score > 0
where_total_score(row) == row.total_score > 0

\* Mutant of order_by_total_score_desc: ORDER BY total_score ASC.
order_by_total_score_asc(store, results) ==
    \A i, j \in DOMAIN results :
        i < j => store[results[i]].total_score <= store[results[j]].total_score

\* ORDER BY total_score DESC: rows of equal score come in any order.
order_by_total_score_desc(store, results) ==
    \A i, j \in DOMAIN results :
        i < j => store[results[i]].total_score >= store[results[j]].total_score

\* The orders in which the SELECT may give the user_ids of the rows it keeps.
select_order(store) ==
    LET kept == {u \in DOMAIN store : where_total_score(store[u])}
    IN {results \in [1..Cardinality(kept) -> kept] :
           /\ \A i, j \in DOMAIN results : i # j => results[i] # results[j]
           /\ order_by_total_score_desc(store, results)}

\* LIMIT %s
limit_rows(results, limit) == SubSeq(results, 1, Min(limit, Len(results)))

\* The dict built for a row; total_score is float(row["total_score"]), a
\* NUMERIC(10, 2) that the float holds to the hundredth.
leaderboard_entry(store, user_id) ==
    [user_id |-> user_id,
     total_score |-> store[user_id].total_score,
     completed_roles |-> store[user_id].completed_roles,
     best_scores |-> store[user_id].best_scores]

\* What get_leaderboard(limit) may return on store.
get_leaderboard_results(store, limit) ==
    {[i \in DOMAIN limit_rows(results, limit) |->
         leaderboard_entry(store, limit_rows(results, limit)[i])] :
        results \in select_order(store)}

InitBoard ==
    /\ \E present \in SUBSET BoardUsers : db \in [present -> BoardRows]
    /\ InitLocals
    /\ InitMain

\* get_leaderboard(limit): one SELECT, and the list built from its rows.
get_leaderboard(limit) ==
    /\ \E rows \in get_leaderboard_results(db, limit) :
           leaderboard' = [limit |-> limit, rows |-> rows]
    /\ UNCHANGED <<db, db_locals, state, context_user_data, handled,
                   score_args, score_data, call_vars>>

NextBoard == \E limit \in 0..MaxLimit : get_leaderboard(limit)

\* The leaderboard is read, any number of times, from a store of three users.
SpecBoard == InitBoard /\ [][NextBoard]_vars

\* The user_ids of a returned list.
Listed(rows) == {rows[i].user_id : i \in DOMAIN rows}

\* C18: get_leaderboard(limit) returns at most limit records of the store,
\* each with total_score > 0, in order of non-increasing total_score, and no
\* record left out has a positive total_score greater than that of a record
\* returned; records of equal score come in any order.
LeaderboardIsTopLimit ==
    leaderboard # <<>> =>
        LET rows == leaderboard.rows
        IN /\ Len(rows) <= leaderboard.limit
           /\ \A i \in DOMAIN rows :
                 /\ rows[i].user_id \in DOMAIN db
                 /\ rows[i] = leaderboard_entry(db, rows[i].user_id)
                 /\ rows[i].total_score > 0
           /\ \A i, j \in DOMAIN rows :
                 i < j => /\ rows[i].user_id # rows[j].user_id
                          /\ rows[i].total_score >= rows[j].total_score
           /\ \A u \in DOMAIN db \ Listed(rows) :
                 db[u].total_score > 0 =>
                     \A i \in DOMAIN rows : rows[i].total_score >= db[u].total_score

\* Of two users with the top score and one with a lower positive score, the
\* two are returned under limit 2, the second of them first.
LeaderboardIsTopLimit_Witness ==
    /\ leaderboard # <<>>
    /\ leaderboard.limit = 2
    /\ DOMAIN db = BoardUsers
    /\ db["u1"].total_score = 2 /\ db["u2"].total_score = 2
    /\ db["u3"].total_score = 1
    /\ Len(leaderboard.rows) = 2
    /\ leaderboard.rows[1].user_id = "u2"
    /\ leaderboard.rows[2].user_id = "u1"

\* ----------------------------------------------------------- calculate_score

\* Pieces of a write-up handed to calculate_score: up to MaxPieces of them.
MaxPieces == 3

\* message_count handed to calculate_score in the specification of the
\* rounding: 0..MaxCount.
MaxCount == 4

\* re.IGNORECASE: the small letter of each capital of the alphabet.
Capitals ==
    [A |-> "a", B |-> "b", V |-> "v", G |-> "g", D |-> "d", E |-> "e",
     Yo |-> "yo", Zh |-> "zh", Z |-> "z", I |-> "i", J |-> "j", K |-> "k",
     L |-> "l", M |-> "m", N |-> "n", O |-> "o", P |-> "p", R |-> "r",
     S |-> "s", T |-> "t", U |-> "u", F |-> "f", H |-> "h", C |-> "c",
     Ch |-> "ch", Sh |-> "sh", Shh |-> "shh", Qq |-> "qq", Y |-> "y", Q |-> "q",
     Eh |-> "eh", Yu |-> "yu", Ya |-> "ya"]

lower(c) == IF c \in DOMAIN Capitals THEN Capitals[c] ELSE c

digit_at(text, i) == i <= Len(text) /\ IsDigit(text[i])

\* \d+ from i on: the position after the run of digits.
RECURSIVE after_digits(_, _)
after_digits(text, i) ==
    IF digit_at(text, i) THEN after_digits(text, i + 1) ELSE i

\* \s* from i on: the position after the run of whitespace.
RECURSIVE after_space(_, _)
after_space(text, i) ==
    IF i <= Len(text) /\ text[i] \in Whitespace
    THEN after_space(text, i + 1)
    ELSE i

\* The literal (in small letters) stands at i, whatever the case of the text.
literal_at(text, i, literal) ==
    /\ i + Len(literal) - 1 <= Len(text)
    /\ \A j \in DOMAIN literal : lower(text[i + j - 1]) = literal[j]

\* Group 1 of a match: the run of digits from i on, as <<first, last>>.
digits_group(text, i) == <<i, after_digits(text, i) - 1>>

\* The patterns of score_patterns, in their order:
\*   1  (\d+)\s*ball               2  ocenk[aiue]\s*[:\-]?\s*(\d+)
\*   3  (\d+)\s*iz\s*20            4  (\d+)/20
\*   5  ocen[aiue]\s*(\d+)
\* match_at(text, k, i) is group 1 of the match of pattern k that starts at
\* position i, and <<>> when there is none. The digits, the whitespace and
\* the optional sign are each taken as far as they go: a shorter run is
\* followed by a character the rest of the pattern cannot take.
NumberOfPatterns == 5

match_number_then(text, i, spaced, literal) ==
    LET p == IF spaced THEN after_space(text, after_digits(text, i))
                       ELSE after_digits(text, i)
    IN IF digit_at(text, i) /\ literal_at(text, p, literal)
       THEN digits_group(text, i)
       ELSE <<>>

match_number_of_20(text, i) ==
    LET p == after_space(text, after_digits(text, i))
        q == after_space(text, p + 2)
    IN IF /\ digit_at(text, i)
          /\ literal_at(text, p, <<"i", "z">>)
          /\ literal_at(text, q, <<"2", "0">>)
       THEN digits_group(text, i)
       ELSE <<>>

match_cue_then_number(text, i, stem, sign) ==
    LET v == i + Len(stem)
        p == after_space(text, v + 1)
        q == IF sign /\ p <= Len(text) /\ text[p] \in {":", "-"}
             THEN after_space(text, p + 1)
             ELSE p
    IN IF /\ literal_at(text, i, stem)
          /\ v <= Len(text)
          /\ lower(text[v]) \in {"a", "i", "u", "e"}
          /\ digit_at(text, q)
       THEN digits_group(text, q)
       ELSE <<>>

match_at(text, k, i) ==
    CASE k = 1 -> match_number_then(text, i, TRUE, <<"b", "a", "l", "l">>)
      [] k = 2 -> match_cue_then_number(text, i, <<"o", "c", "e", "n", "k">>, TRUE)
      [] k = 3 -> match_number_of_20(text, i)
      [] k = 4 -> match_number_then(text, i, FALSE, <<"/", "2", "0">>)
      [] k = 5 -> match_cue_then_number(text, i, <<"o", "c", "e", "n">>, FALSE)

\* The positions at which pattern k matches.
match_starts(text, k) == {i \in DOMAIN text : match_at(text, k, i) # <<>>}

\* int(match.group(1)) of the match of pattern k that starts at i.
matched_score(text, k, i) ==
    int_of_digits(SubSeq(text, match_at(text, k, i)[1], match_at(text, k, i)[2]))

\* Mutant of re_search: the last match of the pattern, not the first.
re_search_last(text, k) ==
    LET starts == match_starts(text, k)
    IN IF starts = {} THEN 0
       ELSE CHOOSE i \in starts : \A j \in starts : j <= i

\* re.search(pattern, llm_response, re.IGNORECASE): where the leftmost match
\* of pattern k starts; 0 for None.
re_search(text, k) ==
    LET starts == match_starts(text, k)
    IN IF starts = {} THEN 0
       ELSE CHOOSE i \in starts : \A j \in starts : i <= j

\* Mutant of score_in_range: every number read is taken.
score_in_any_range(parsed_score) == parsed_score >= 0

\* if 0 <= parsed_score <= 20
score_in_range(parsed_score) == 0 <= parsed_score /\ parsed_score <= 20

\* The loop over score_patterns from pattern k on, and base_score = 10 before
\* it: the first pattern whose leftmost match is in range gives base_score,
\* and the loop breaks.
RECURSIVE scan_patterns(_, _)
scan_patterns(llm_response, k) ==
    IF k > NumberOfPatterns
    THEN 10
    ELSE LET i == re_search(llm_response, k)
             parsed_score == matched_score(llm_response, k, i)
         IN IF i # 0 /\ score_in_range(parsed_score)
            THEN parsed_score
            ELSE scan_patterns(llm_response, k + 1)

\* The achievement of a base_score ("none" for None).
achievement_of(base_score) ==
    IF base_score >= 18 THEN "Master peregovorov"
    ELSE IF base_score >= 15 THEN "Professional"
    ELSE IF base_score >= 12 THEN "Horoshaya rabota"
    ELSE IF base_score >= 8 THEN "Neploho"
    ELSE "none"

\* What calculate_score(role_key, message_count, llm_response) may return.
calculate_score_results(role_key, message_count, llm_response) ==
    LET base_score == scan_patterns(llm_response, 1)
    IN {[base_score |-> base_score,
         final_score |-> final_score,
         achievement |-> achievement_of(base_score)] :
           final_score \in final_scores(ROLES[role_key].multiplier, base_score,
                                        message_count)}

\* The pieces the write-ups of the scoring specification are made of:
\*   1  "7 ballov "  (rule 1, in range)
\*   2  "25 ballov "  (rule 1, out of range)
\*   3  "Ocenka: "  (the cue of rule 2, before whatever number follows)
\*   4  "9 iz 20 "  (rule 3)
\*   5  "6/20 "  (rule 4)
\*   6  "oceni "  (the cue of rule 5)
\*   7  "30/20 "  (rule 4, out of range)
\*   8  "12 "  (a number with no cue of its own)
ScorePieces ==
    <<
      <<"7", " ", "b", "a", "l", "l", "o", "v", " ">>,
      <<"2", "5", " ", "b", "a", "l", "l", "o", "v", " ">>,
      <<"O", "c", "e", "n", "k", "a", ":", " ">>,
      <<"9", " ", "i", "z", " ", "2", "0", " ">>,
      <<"6", "/", "2", "0", " ">>,
      <<"o", "c", "e", "n", "i", " ">>,
      <<"3", "0", "/", "2", "0", " ">>,
      <<"1", "2", " ">>
    >>

\* The text made of the pieces numbered by ks.
RECURSIVE join_pieces(_)
join_pieces(ks) ==
    IF ks = <<>> THEN <<>> ELSE ScorePieces[Head(ks)] \o join_pieces(Tail(ks))

ScoreTexts ==
    {join_pieces(ks) : ks \in UNION {[1..n -> DOMAIN ScorePieces] : n \in 0..MaxPieces}}

\* The write-ups of one piece at most.
ShortScoreTexts ==
    {<<>>} \cup {ScorePieces[k] : k \in DOMAIN ScorePieces}

\* main.py with a call of calculate_score ahead.
InitCall(args) ==
    /\ db = EmptyMap
    /\ InitLocals
    /\ state = END
    /\ context_user_data = EmptyMap
    /\ handled = NoHandler
    /\ leaderboard = <<>>
    /\ score_args \in args
    /\ score_data = <<>>
    /\ victory_check = <<>>
    /\ victory_score_data = <<>>
    /\ typing = <<>>

\* Every write-up, for the first persona after one message.
InitScore ==
    InitCall([role_key : {ROLE_ORDER[1]}, message_count : {1},
              llm_response : ScoreTexts])

\* Every persona and every count, for the short write-ups.
InitFinal ==
    InitCall([role_key : RoleKeys, message_count : 0..MaxCount,
              llm_response : ShortScoreTexts])

\* calculate_score(role_key, message_count, llm_response), called once.
calculate_score ==
    /\ score_data = <<>>
    /\ score_data' \in calculate_score_results(score_args.role_key,
                           score_args.message_count, score_args.llm_response)
    /\ UNCHANGED <<db, db_locals, state, context_user_data, handled,
                   score_args, leaderboard, call_vars>>

NextScore == calculate_score

\* calculate_score is called once on each write-up.
SpecScore == InitScore /\ [][NextScore]_vars

\* calculate_score is called once for each persona and message_count.
SpecFinal == InitFinal /\ [][NextScore]_vars

\* The value of the leftmost match of pattern k in text.
FirstValue(text, k) ==
    LET starts == match_starts(text, k)
    IN matched_score(text, k, CHOOSE i \in starts : \A j \in starts : i <= j)

\* The occurrences of pattern k in text, as re.finditer gives them: the
\* matches that do not begin inside the number of an earlier match.
occurrence_starts(text, k) ==
    {i \in match_starts(text, k) : ~(i > 1 /\ IsDigit(text[i - 1]) /\ IsDigit(text[i]))}

\* C19, as stated, in what every reading of it says: base_score is 10 when
\* no rule has an occurrence with a value in [0, 20]; when one has (the next
\* occurrence of a rule whose first value was rejected included), base_score
\* is such a value.
AcceptableOccurrenceIsFound ==
    score_data # <<>> =>
        LET text == score_args.llm_response
            values == UNION {{matched_score(text, k, i) :
                                 i \in occurrence_starts(text, k)} :
                             k \in 1..NumberOfPatterns} \cap 0..20
        IN IF values = {} THEN score_data.base_score = 10
                          ELSE score_data.base_score \in values

\* C19, amended: the rules are tried in their order; each rule is taken at
\* its leftmost match only; the first rule whose leftmost match holds a value
\* in [0, 20] gives base_score, and base_score is 10 when no rule does. So
\* base_score is always an integer in [0, 20].
FirstRuleInRangeWins ==
    score_data # <<>> =>
        LET text == score_args.llm_response
            winning == {k \in 1..NumberOfPatterns :
                           /\ match_starts(text, k) # {}
                           /\ FirstValue(text, k) \in 0..20}
        IN /\ score_data.base_score \in 0..20
           /\ score_data.base_score =
                  IF winning = {} THEN 10
                  ELSE FirstValue(text, CHOOSE k \in winning : \A n \in winning : k <= n)

\* "30/20 oceni 12 ": the value of rule 4 is rejected, and rule 5 gives 12.
FirstRuleInRangeWins_Witness ==
    /\ score_args.llm_response = join_pieces(<<7, 6, 8>>)
    /\ score_data # <<>>
    /\ score_data.base_score = 12

\* C20: final_score is multiplier * base_score / max(message_count, 1)
\* rounded to two decimals (it lies within half a hundredth of the quotient),
\* for every persona and message_count; with message_count = 0 the divisor is
\* 1, and the call returns multiplier * base_score.
FinalScoreIsRoundedQuotient ==
    score_data # <<>> =>
        LET divisor == Max(score_args.message_count, 1)
            product == ROLES[score_args.role_key].multiplier
                           * score_data.base_score * 10
            error == score_data.final_score * divisor - product
        IN /\ 2 * error <= divisor
           /\ 2 * (0 - error) <= divisor
           /\ score_args.message_count = 0 => score_data.final_score = product

\* The write-up holds no number and message_count is 0: base_score is 10 and
\* final_score is the multiplier times ten.
FinalScoreIsRoundedQuotient_Witness ==
    /\ score_args.message_count = 0
    /\ score_args.llm_response = <<>>
    /\ score_args.role_key = "max"
    /\ score_data # <<>>
    /\ score_data.base_score = 10
    /\ score_data.final_score = 1500

\* ------------------------------------------------- the rating of a victory

\* Ratings written in the write-ups of the rating specification: 0..MaxRating.
MaxRating == 21

\* str(n), for n >= 0.
RECURSIVE digits_of(_)
digits_of(n) ==
    IF n < 10 THEN <<Digits[n + 1]>>
    ELSE digits_of(n \div 10) \o <<Digits[(n % 10) + 1]>>

\* "Bazovaya ocenka: n/20", the line the evaluation is asked to end with.
rated_text(n) == score_line_cue \o <<" ">> \o digits_of(n) \o <<"/", "2", "0">>

\* "Bazovaya ocenka: -5/20"
rated_below_zero == score_line_cue \o <<" ", "-", "5", "/", "2", "0">>

\* The write-ups of the rating specification: every rating, the two write-ups
\* of the session, a rating below zero, and the short write-ups of the scoring
\* specification (which rate in other words).
RatingTexts ==
    {rated_text(n) : n \in 0..MaxRating}
    \cup {analysis_rated, analysis_failure_text, rated_below_zero}
    \cup ShortScoreTexts

\* Mutant of victory_achievement: a rating on a threshold gets the tier below.
victory_achievement_above(base_score) ==
    IF base_score > 18 THEN "Master peregovorov"
    ELSE IF base_score > 15 THEN "Professional"
    ELSE IF base_score > 12 THEN "Horoshaya rabota"
    ELSE IF base_score > 8 THEN "Neploho"
    ELSE "none"

\* handle_message: the achievement of a base_score ("none" for None).
victory_achievement(base_score) ==
    IF base_score >= 18 THEN "Master peregovorov"
    ELSE IF base_score >= 15 THEN "Professional"
    ELSE IF base_score >= 12 THEN "Horoshaya rabota"
    ELSE IF base_score >= 8 THEN "Neploho"
    ELSE "none"

\* score_data of handle_message, steps 2 and 3 of its victory path: what it
\* may be for the write-up of get_analysis, the persona and message_count.
victory_score_results(role_key, message_count, analysis_text) ==
    LET base_score == parse_base_score(analysis_text)
    IN {[base_score |-> base_score,
         final_score |-> final_score,
         achievement |-> victory_achievement(base_score)] :
           final_score \in final_scores(ROLES[role_key].multiplier, base_score,
                                        message_count)}

\* Every persona and every count, for the write-ups of the rating.
InitRating ==
    InitCall([role_key : RoleKeys, message_count : 0..MaxCount,
              llm_response : RatingTexts])

\* The victory path of handle_message computes score_data for the write-up.
score_victory ==
    /\ score_args # <<>>
    /\ victory_score_data = <<>>
    /\ victory_score_data' \in victory_score_results(score_args.role_key,
           score_args.message_count, score_args.llm_response)
    /\ UNCHANGED <<db, db_locals, state, context_user_data, handled,
                   score_args, score_data, leaderboard, victory_check, typing>>

NextRating ==
    \/ calculate_score
    \/ score_victory

\* calculate_score and the victory path of handle_message rate one write-up.
SpecRating == InitRating /\ [][NextRating]_vars

\* The tier the claim gives to a base_score.
TierOf(base_score) ==
    CASE base_score >= 18 -> "Master peregovorov"
      [] base_score \in 15..17 -> "Professional"
      [] base_score \in 12..14 -> "Horoshaya rabota"
      [] base_score \in 8..11 -> "Neploho"
      [] base_score < 8 -> "none"

\* C21: the achievement is decided by base_score alone, whatever final_score,
\* the multiplier and message_count are: 18 and more gives the top tier, 15 to
\* 17 the next, 12 to 14 the next, 8 to 11 the lowest, and less than 8 none;
\* in calculate_score and on the victory path of handle_message alike.
AchievementFollowsBaseScore ==
    /\ score_data # <<>> =>
           score_data.achievement = TierOf(score_data.base_score)
    /\ victory_score_data # <<>> =>
           victory_score_data.achievement = TierOf(victory_score_data.base_score)

\* A rating of 15 has the second tier from both, for the persona with the
\* largest multiplier and for the largest message_count.
AchievementFollowsBaseScore_Witness ==
    /\ score_args.llm_response = rated_text(15)
    /\ score_args.role_key = "victoria"
    /\ score_args.message_count = MaxCount
    /\ score_data # <<>> /\ victory_score_data # <<>>
    /\ score_data.achievement = "Professional"
    /\ victory_score_data.achievement = "Professional"
    /\ victory_score_data.final_score < 1500

\* C26, as stated: what the victory path of handle_message computes (base
\* score, final score and tier) is what calculate_score returns for the same
\* write-up, persona and message_count, and its base score is in [0, 20].
VictoryScoreIsCalculateScore ==
    (score_data # <<>> /\ victory_score_data # <<>>) =>
        /\ victory_score_data.base_score = score_data.base_score
        /\ victory_score_data.achievement = score_data.achievement
        /\ victory_score_data \in calculate_score_results(score_args.role_key,
               score_args.message_count, score_args.llm_response)
        /\ victory_score_data.base_score \in 0..20

\* ------------------------------------------------ the victory of a reply

\* The pieces the replies of the victory specification are made of:
\*   1  "Dorogo. "  (no phrase)
\*   2  "dogovorilisq"  (a phrase)
\*   3  "DOGOVORILISQ"  (the phrase in capitals: none of the list)
\*   4  "Soglas"  (the start of two phrases)
\*   5  "en"  (the end of "Soglasen")
\*   6  "na"  (the end of "Soglasna")
\*   7  "Nu, "  (no phrase)
ReplyPieces ==
    <<
      <<"D", "o", "r", "o", "g", "o", ".", " ">>,
      <<"d", "o", "g", "o", "v", "o", "r", "i", "l", "i", "s", "q">>,
      <<"D", "O", "G", "O", "V", "O", "R", "I", "L", "I", "S", "Q">>,
      <<"S", "o", "g", "l", "a", "s">>,
      <<"e", "n">>,
      <<"n", "a">>,
      <<"N", "u", ",", " ">>
    >>

\* The reply made of the pieces numbered by ks.
RECURSIVE join_reply(_)
join_reply(ks) ==
    IF ks = <<>> THEN <<>> ELSE ReplyPieces[Head(ks)] \o join_reply(Tail(ks))

\* The replies of up to MaxPieces pieces.
ReplyTexts ==
    {join_reply(ks) : ks \in UNION {[1..n -> DOMAIN ReplyPieces] : n \in 0..MaxPieces}}

\* main.py with a reply of the generation call to classify.
InitVictory ==
    /\ db = EmptyMap
    /\ InitLocals
    /\ state = END
    /\ context_user_data = EmptyMap
    /\ handled = NoHandler
    /\ score_args = <<>>
    /\ score_data = <<>>
    /\ leaderboard = <<>>
    /\ victory_check \in [llm_response : ReplyTexts, checked : {FALSE},
                          is_victory : {FALSE}]
    /\ victory_score_data = <<>>
    /\ typing = <<>>

\* handle_message classifies the reply: is_victory = any(phrase in
\* llm_response for phrase in victory_phrases).
check_victory ==
    /\ victory_check # <<>>
    /\ ~victory_check.checked
    /\ victory_check' = [victory_check EXCEPT
                            !.checked = TRUE,
                            !.is_victory = is_victory(victory_check.llm_response)]
    /\ UNCHANGED <<db, db_locals, state, context_user_data, handled,
                   score_args, score_data, leaderboard, victory_score_data,
                   typing>>

\* handle_message classifies each reply once.
SpecVictory == InitVictory /\ [][check_victory]_vars

\* The phrase stands in the text from position i on, character by character.
StandsAt(text, phrase, i) ==
    /\ i + Len(phrase) - 1 <= Len(text)
    /\ \A j \in DOMAIN phrase : text[i + j - 1] = phrase[j]

\* "dogovorilisq"
phrase_agreed == victory_phrases[6]

\* C22: a reply is classified as a victory if and only if one of the phrases
\* of the list stands in it somewhere, in the case the list writes it in: a
\* reply that holds "dogovorilisq" anywhere is a victory, and a reply that
\* holds none of the phrases (the phrase in capitals only, say) is none.
VictoryIffListedPhrase ==
    (victory_check # <<>> /\ victory_check.checked) =>
        LET text == victory_check.llm_response
        IN /\ victory_check.is_victory <=>
                 \E k \in DOMAIN victory_phrases : \E i \in DOMAIN text :
                     StandsAt(text, victory_phrases[k], i)
           /\ (\E i \in DOMAIN text : StandsAt(text, phrase_agreed, i))
                 => victory_check.is_victory
           /\ text \in {join_reply(<<3>>), join_reply(<<7, 3, 1>>)}
                 => ~victory_check.is_victory

\* "Nu, Soglasna": a phrase that does not open the reply has made it a victory.
VictoryIffListedPhrase_Witness ==
    /\ victory_check # <<>>
    /\ victory_check.llm_response = join_reply(<<7, 4, 6>>)
    /\ victory_check.checked
    /\ victory_check.is_victory

\* ------------------------------------------- the progress of one learner

\* The rows the learner's progress starts from: the inserted row, or a row
\* written under the retired roster.
ProgressRows ==
    {PrefixRow(old_roles, n, s) : n \in 0..Len(old_roles), s \in Scores}

InitProgress ==
    /\ \E present \in SUBSET {Learner} : db \in [present -> ProgressRows]
    /\ InitLocals
    /\ InitMain

\* The call has returned to the handler that made it, which may call again.
Return(p) ==
    /\ pc[p] = "done"
    /\ pc' = [pc EXCEPT ![p] = "idle"]
    /\ UNCHANGED <<db, call, user_data, inserted, ret, before, foreign, quiet,
                   wave, mig>>
    /\ UNCHANGED main_vars

\* start(): the button of the next level, for ROLE_ORDER[current_index].
next_button(user_progress) ==
    IF /\ user_progress.current_level_index < Len(ROLE_ORDER)
       /\ ROLE_ORDER[user_progress.current_level_index + 1] \in DOMAIN ROLES
    THEN {ROLE_ORDER[user_progress.current_level_index + 1]}
    ELSE {}

\* start(): the buttons that repeat a level.
replay_buttons(user_progress) ==
    IF \/ Len(user_progress.completed_roles) >= Len(ROLE_ORDER)
       \/ user_progress.current_level_index >= Len(ROLE_ORDER)
    THEN RoleKeys \cap DOMAIN ROLES
    ELSE Range(user_progress.completed_roles) \cap RoleKeys \cap DOMAIN ROLES

\* start(): the personas of the keyboard; the first one when there is no other.
keyboard(user_progress) ==
    IF next_button(user_progress) \cup replay_buttons(user_progress) # {}
    THEN next_button(user_progress) \cup replay_buttons(user_progress)
    ELSE {ROLE_ORDER[1]} \cap DOMAIN ROLES

\* /start: start() calls get_user_progress(user_id).
CallStart(p) ==
    /\ CallIn(p, {Learner})
    /\ call'[p].op = "get"

\* get_user_progress has returned user_progress to start(), and the learner has
\* the keyboard made from it.
HasKeyboard(p) == pc[p] = "idle" /\ call[p].op = "get"

\* The learner wins a persona of the keyboard: handle_message calls
\* update_user_progress(user_id, role_key, final_score).
CallVictory(p, buttons) ==
    /\ HasKeyboard(p)
    /\ CallIn(p, {Learner})
    /\ call'[p].op = "update"
    /\ call'[p].role_key \in buttons

\* The caller whose calls are the learner's.
Bot == "p1"

NextProgress ==
    \/ CallStart(Bot)
    \/ CallVictory(Bot, keyboard(ret[Bot]))
    \/ Select(Bot)
    \/ MigrateWrite(Bot)
    \/ MigrateSkip(Bot)
    \/ CommitInsert(Bot)
    \/ Update(Bot)
    \/ Return(Bot)

\* One learner starts and wins the personas of the keyboard, one call of
\* db.py at a time, and every call returns.
SpecProgress == InitProgress /\ [][NextProgress]_vars

\* /start, when the learner has no next level waiting to be played.
CallStartOver(p) ==
    /\ ~(HasKeyboard(p) /\ next_button(ret[p]) # {})
    /\ CallStart(p)

NextClimb ==
    \/ CallStartOver(Bot)
    \/ CallVictory(Bot, next_button(ret[Bot]))
    \/ Select(Bot)
    \/ MigrateWrite(Bot)
    \/ MigrateSkip(Bot)
    \/ CommitInsert(Bot)
    \/ Update(Bot)
    \/ Return(Bot)

\* The learner takes the level offered as next each time, and wins it; the
\* bot goes on for as long as it has a step to take.
SpecClimb == InitProgress /\ [][NextClimb]_vars /\ WF_vars(NextClimb)

\* ------------------------------------------------ claims about the progress

\* C23, as stated, for the records that hold current keys only (as the calls
\* leave them): when current_level_index < len(ROLE_ORDER), the persona
\* ROLE_ORDER[current_level_index] is not in completed_roles.
IndexDesignatesOpenPersona ==
    \A u \in DOMAIN db :
        (/\ OnlyCurrentKeys(db[u])
         /\ db[u].current_level_index < Len(ROLE_ORDER))
        => ROLE_ORDER[db[u].current_level_index + 1]
               \notin Range(db[u].completed_roles)

\* The learner has completed the whole of ROLE_ORDER, and the index says so.
AllCompleted ==
    /\ Learner \in DOMAIN db
    /\ RoleKeys \subseteq Range(db[Learner].completed_roles)
    /\ db[Learner].current_level_index = Len(ROLE_ORDER)

\* C24, as stated: a learner who takes the persona offered as next each time,
\* and wins it, eventually has every persona of ROLE_ORDER in completed_roles
\* and current_level_index = len(ROLE_ORDER).
ProgressionCompletes == <>AllCompleted

\* C28, as stated: in every stored record, every persona of completed_roles
\* has an entry in best_scores.
CompletedHaveBestScores ==
    \A u \in DOMAIN db :
        Range(db[u].completed_roles) \subseteq DOMAIN db[u].best_scores

\* C28, amended: every persona of completed_roles has an entry in
\* best_scores, but for "max" in a record that holds the whole of ROLE_ORDER
\* as completed: the migration of a record with the whole retired roster
\* stores ROLE_ORDER as completed_roles and remaps best_scores key by key,
\* and no retired key is remapped to "max".
CompletedHaveBestScoresButMax ==
    \A u \in DOMAIN db :
        LET unscored == Range(db[u].completed_roles) \ DOMAIN db[u].best_scores
        IN /\ unscored \subseteq {"max"}
           /\ unscored # {} => db[u].completed_roles = ROLE_ORDER

\* The migration has stored the whole of ROLE_ORDER with no score for "max",
\* and a victory over oleg has been stored on top of it since.
CompletedHaveBestScoresButMax_Witness ==
    /\ Learner \in DOMAIN db
    /\ db[Learner].completed_roles = ROLE_ORDER
    /\ "max" \notin DOMAIN db[Learner].best_scores
    /\ pc[Bot] = "done"
    /\ call[Bot].op = "update"
    /\ call[Bot].role_key = "oleg"
    /\ db[Learner].best_scores["oleg"] = call[Bot].score

\* C25, as stated: when update_user_progress(user, p, s) with p in ROLE_ORDER
\* has returned, the stored record of user has only keys of ROLE_ORDER in
\* completed_roles and best_scores, also when it held retired keys before.
UpdateStoresCurrentKeys ==
    \A p \in Procs :
        (UpdateDoneAlone(p) /\ call[p].role_key \in RoleKeys)
        => OnlyCurrentKeys(db[UserOf(p)])

\* C27, as stated: whenever a session waits in IN_DIALOG for the learner's
\* next turn, dialog starts with a persona turn, alternates persona and
\* learner turns strictly, and ends with a persona turn.
DialogAlternates ==
    (state = IN_DIALOG /\ "dialog" \in DOMAIN context_user_data) =>
        LET dialog == context_user_data.dialog
        IN /\ dialog # <<>>
           /\ dialog[1].role = "client"
           /\ \A i \in 1..(Len(dialog) - 1) : dialog[i].role # dialog[i + 1].role
           /\ dialog[Len(dialog)].role = "client"

\* ---------------------------------------------------- the typing signal

\* Typing signals of one call of get_llm_response_async: the typing task is
\* followed up to this count.
MaxSignals == 8

\* typing is the call of get_llm_response_async(role_key, dialog_history,
\* chat_id, bot): where the coroutine stands (wrapper), whether chat_id and
\* bot were given (chat), the future of run_in_executor (call), the task of
\* send_typing_periodically (typing_task), and the signals it has sent.
InitTyping ==
    /\ db = EmptyMap
    /\ InitLocals
    /\ state = END
    /\ context_user_data = EmptyMap
    /\ handled = NoHandler
    /\ score_args = <<>>
    /\ score_data = <<>>
    /\ leaderboard = <<>>
    /\ victory_check = <<>>
    /\ victory_score_data = <<>>
    /\ typing \in [wrapper : {"called"}, chat : BOOLEAN, call : {"none"},
                   typing_task : {"none"}, signals : {0}]

\* The other variables, which a call of get_llm_response_async leaves alone.
TypingFrame ==
    UNCHANGED <<db, db_locals, state, context_user_data, handled, score_args,
                score_data, leaderboard, victory_check, victory_score_data>>

\* Mutant of cancel: the request is lost.
cancel_nothing(typing_task) == typing_task

\* typing_task.cancel(): a task that has not ended is asked to; CancelledError
\* is thrown into it when it is next run.
cancel(typing_task) ==
    IF typing_task \in {"pending", "sending", "sleeping"}
    THEN "cancelling"
    ELSE typing_task

\* What the coroutine does when the future of the call is done: return result
\* or let the exception pass.
outcome_of(future) == IF future = "returned" THEN "returned" ELSE "raised"

\* finally: typing_task.cancel() and await typing_task. With no task, or one
\* that has ended, the coroutine goes on at once; else it waits for the task.
finally_of(t) ==
    LET task == IF t.typing_task = "none" THEN "none" ELSE cancel(t.typing_task)
    IN [t EXCEPT !.typing_task = task,
                 !.wrapper = IF task \in {"none", "done", "cancelled"}
                             THEN outcome_of(t.call)
                             ELSE "awaiting_task"]

\* The coroutine runs up to its first await: the typing task is created when
\* chat_id and bot are given, and the call handed to the executor; or
\* run_in_executor raises, and the finally block is run at once.
enter_get_llm_response_async ==
    /\ typing # <<>>
    /\ typing.wrapper = "called"
    /\ LET created == [typing EXCEPT !.typing_task =
                          IF typing.chat THEN "pending" ELSE "none"]
       IN \/ typing' = [created EXCEPT !.call = "running",
                                       !.wrapper = "awaiting_call"]
          \/ typing' = finally_of([created EXCEPT !.call = "raised"])
    /\ TypingFrame

\* get_llm_response ends in the thread of the executor: the future is done.
complete_call ==
    /\ typing # <<>>
    /\ typing.call = "running"
    /\ \E result \in {"returned", "raised"} :
           typing' = [typing EXCEPT !.call = result]
    /\ TypingFrame

\* The event loop runs the coroutine again, the future being done.
resume_get_llm_response_async ==
    /\ typing # <<>>
    /\ typing.wrapper = "awaiting_call"
    /\ typing.call \in {"returned", "raised"}
    /\ typing' = finally_of(typing)
    /\ TypingFrame

\* send_typing_periodically: bot.send_chat_action is called (a signal), at the
\* start of the task and after each sleep, while the duration lasts.
send_chat_action ==
    /\ typing # <<>>
    /\ typing.typing_task \in {"pending", "sleeping"}
    /\ typing.signals < MaxSignals
    /\ typing' = [typing EXCEPT !.typing_task = "sending", !.signals = @ + 1]
    /\ TypingFrame

\* send_chat_action returns, and the task sleeps; or it raises, and the task
\* leaves its loop.
chat_action_sent ==
    /\ typing # <<>>
    /\ typing.typing_task = "sending"
    /\ \E next \in {"sleeping", "done"} :
           typing' = [typing EXCEPT !.typing_task = next]
    /\ TypingFrame

\* The duration is over when the task looks at the clock: it ends.
duration_over ==
    /\ typing # <<>>
    /\ typing.typing_task \in {"pending", "sleeping"}
    /\ typing' = [typing EXCEPT !.typing_task = "done"]
    /\ TypingFrame

\* The event loop runs the task that was asked to end: CancelledError is
\* thrown at its await, no except clause of the task takes it, and the
\* coroutine that awaits the task goes on.
deliver_cancel ==
    /\ typing # <<>>
    /\ typing.typing_task = "cancelling"
    /\ typing' = [typing EXCEPT !.typing_task = "cancelled",
                                !.wrapper = IF @ = "awaiting_task"
                                            THEN outcome_of(typing.call)
                                            ELSE @]
    /\ TypingFrame

NextTyping ==
    \/ enter_get_llm_response_async
    \/ complete_call
    \/ resume_get_llm_response_async
    \/ send_chat_action
    \/ chat_action_sent
    \/ duration_over
    \/ deliver_cancel

\* One call of get_llm_response_async, and the event loop's steps of it.
SpecTyping == InitTyping /\ [][NextTyping]_vars

\* The task of send_typing_periodically is still to run.
TaskRuns(t) == t.typing_task \in {"pending", "sending", "sleeping"}

\* C29: once get_llm_response_async has returned or raised, its typing task
\* runs no more. The task is cancelled when the coroutine goes on after the
\* generation call, whether the call returned (the coroutine returns) or
\* raised (it raises), and it sends no signal from then on.
TypingStopsWithCall ==
    [][(typing # <<>> /\ typing' # <<>>) =>
          /\ typing'.wrapper \in {"returned", "raised"} =>
                /\ ~TaskRuns(typing')
                /\ typing'.wrapper = outcome_of(typing'.call)
          /\ typing.wrapper = "awaiting_call" /\ typing'.wrapper # "awaiting_call"
                => ~TaskRuns(typing')
          /\ typing.wrapper \in {"awaiting_task", "returned", "raised"} =>
                /\ typing'.signals = typing.signals
                /\ ~TaskRuns(typing')]_vars

\* The call has raised after the task had sent two signals; the task was
\* cancelled in its sleep, and the coroutine has raised.
TypingStopsWithCall_Witness ==
    /\ typing # <<>>
    /\ typing.wrapper = "raised"
    /\ typing.call = "raised"
    /\ typing.typing_task = "cancelled"
    /\ typing.signals = 2

\* ------------------------------------------------ the rows of other users

\* The rows the two users may have when the calls begin: one written under the
\* retired roster, which the migration rewrites, and one under the current.
FrameRows == {PrefixRow(old_roles, 1, 0), PrefixRow(ROLE_ORDER, 2, MaxScore)}

InitFrame ==
    /\ \E present \in SUBSET AllUsers : db \in [present -> FrameRows]
    /\ InitLocals
    /\ InitMain

NextFrame ==
    \E p \in Procs :
        \/ CallIn(p, AllUsers)
        \/ Select(p)
        \/ MigrateWrite(p)
        \/ MigrateSkip(p)
        \/ CommitInsert(p)
        \/ InsertConflict(p)
        \/ GetFail(p)
        \/ CommitFail(p)
        \/ Update(p)
        \/ UpdateFail(p)

\* Two callers, each calling get_user_progress or update_user_progress once for
\* either of two users, their steps interleaved in every order.
SpecFrame == InitFrame /\ [][NextFrame]_vars

\* The caller that takes the step.
Steps(p) == pc'[p] # pc[p]

\* C30: a step of get_user_progress, update_user_progress or the migration, run
\* for user u, leaves the stored record of every other user as it was: neither
\* changed, nor created, nor removed.
OtherRecordsUnchanged ==
    [][\A p \in Procs :
          Steps(p) =>
              \A u \in AllUsers \ {call'[p].user_id} :
                  Snap(db', u) = Snap(db, u)]_vars

\* The two callers ran for different users, one through the migration and one
\* through update_user_progress, and each has left the row of its user changed.
OtherRecordsUnchanged_Witness ==
    /\ pc["p1"] = "done" /\ pc["p2"] = "done"
    /\ UserOf("p1") # UserOf("p2")
    /\ call["p1"].op = "get" /\ call["p2"].op = "update"
    /\ mig[UserOf("p1")] # <<>>
    /\ \A p \in Procs : Snap(db, UserOf(p)) # before[p]

====
